---- MODULE Spec2Model ----
(***************************************************************************)
(* WiFi provisioning subsystem of pico_camera_slider (Zephyr, Pico W).     *)
(*                                                                         *)
(* Execution contexts (spec section 5): the main/orchestrator thread, the  *)
(* shell thread, the HTTP server thread, and the net_mgmt thread that      *)
(* delivers notifications.  A caller thread advances one step at a time    *)
(* between kernel calls; a notification handler runs to completion.        *)
(***************************************************************************)
EXTENDS Integers, Sequences, FiniteSets, TLC

(***************************************************************************)
(* Bounds of the model (not program constants).                            *)
(***************************************************************************)
\* result notifications the platform delivers between two buffer resets, one caller
MaxNotif == 34
\* the same with two callers racing
RaceNotif == 2
\* scan jobs the platform keeps in flight at once
MaxJobs == 2
\* the highest descriptor of the platform's descriptor table
MaxFd == 5

(***************************************************************************)
(* Program constants.                                                      *)
(***************************************************************************)
WIFI_SCANNER_MAX_RESULTS == 32
DEFAULT_SCAN_TIMEOUT_MS == 10000
CALLER_SCAN_TIMEOUT_MS == 10000
EIO == 5
EAGAIN == 11
EBUSY == 16
ENODEV == 19
EINVAL == 22
ETIMEDOUT == 116

WIFI_SSID_MAX == 32
WIFI_PSK_MAX == 64
ENOEXEC == 8
EALREADY == 120
ENOTSUP == 134

Threads == {"main", "shell", "http"}

\* positions inside provisioning_creds_received itself
PcrLabels == {"pcr_store", "pcr_http_stop", "pcr_ap_stop", "pcr_sleep", "pcr_return"}

\* status values a scan-completion notification may carry
ScanDoneStatuses == {0, 1, -1}
\* errors a refused platform request may return
RequestErrors == {-EIO}
\* timeout arguments callers pass to scan()
TimeoutArgs == {0, CALLER_SCAN_TIMEOUT_MS}

VARIABLES
    scanner,    \* struct wifi_scanner
    jobs,       \* platform: scan requests accepted and not yet completed; live: the
                \* threads whose scan() still waits for its request, stale: the count
                \* of requests whose scan() has returned
    narrived,   \* platform: result notifications delivered since the buffer was last emptied
    nlimit,     \* platform: how many result notifications it delivers per buffer epoch
    has_iface,  \* platform: net_if_get_default() != NULL
    own_done,   \* per thread: the completion notification of the request its current
                \* scan() issued, once the done handler got it before the wait expired
    any_done,   \* per thread: some completion notification reached the done handler
                \* since its current scan() reset the semaphore
    pc,         \* per thread: position in the code
    stack,      \* per thread: return positions of the calls in progress
    rv,         \* per thread: value returned by the last call that returned
    tmo,        \* per thread: timeout_ms of scan(), as passed (arg) and as waited (eff)
    semret,     \* per thread: outcome of k_sem_take
    app,        \* main.c: wifi_ssid, wifi_psk, wifi_credentials_set, wifi_connected,
                \* provisioning_mode, and whether wifi_cb is registered
    wifi_connected_sem, \* main.c: K_SEM_DEFINE(wifi_connected_sem, 0, 1)
    store,      \* settings storage: the keys demo/wifi_ssid and demo/wifi_psk
    http_srv,   \* struct http_server
    ap_prov,    \* struct wifi_ap_provisioning
    ap_g,       \* wifi_ap_provisioning.c: g_ap_instance, g_creds_callback
    plat,       \* platform: AP and station requests accepted and not yet answered, and
                \* the status of the first connect result since the last k_sem_reset
    net,        \* sockets: the listening socket, the accepted connection, its request
                \* and what was sent on it
    hc,         \* handle_client while it sends the page: count as read from the
                \* scanner and the entries sent so far
    args,       \* per thread: the ssid and password held for provisioning_creds_received
    mlog,       \* what main() has done, in order
    cblog,      \* what the running provisioning_creds_received has done, in order
    gui         \* struct wifi_gui, the argument of the last wifi_gui_handle_input and
                \* the calls made to its credential callback, in order

scannerVars == <<scanner, jobs, narrived, own_done, any_done, tmo, semret, gui>>
orchVars == <<app, wifi_connected_sem, store, http_srv, ap_prov, ap_g, plat, net,
              hc, args, mlog, cblog>>
envVars == <<nlimit, has_iface, orchVars, gui>>
threadVars == <<pc, stack, rv>>
vars == <<scanner, jobs, narrived, nlimit, has_iface, own_done, any_done,
          pc, stack, rv, tmo, semret, orchVars, gui>>

(***************************************************************************)
(* Calls and returns of a thread.                                          *)
(***************************************************************************)
Call(t, label, back) ==
    /\ pc' = [pc EXCEPT ![t] = label]
    /\ stack' = [stack EXCEPT ![t] = <<back>> \o stack[t]]
    /\ UNCHANGED rv

Return(t, v) ==
    /\ pc' = [pc EXCEPT ![t] = Head(stack[t])]
    /\ stack' = [stack EXCEPT ![t] = Tail(stack[t])]
    /\ rv' = [rv EXCEPT ![t] = v]

Goto(t, label) ==
    /\ pc' = [pc EXCEPT ![t] = label]
    /\ UNCHANGED <<stack, rv>>

Min(a, b) == IF a < b THEN a ELSE b

\* thread t runs provisioning_creds_received (or a function it called)
InCallback(t) == pc[t] \in PcrLabels \/ \E i \in DOMAIN stack[t] : stack[t][i] \in PcrLabels

NoDone == [got |-> FALSE, status |-> 0]

NoTimeout == [arg |-> 0, eff |-> 0]

NJobs(js) == Cardinality(js.live) + js.stale

(***************************************************************************)
(* Kernel semaphore (k_sem) as the scanner uses it.  Its wait queue is a   *)
(* doubly-linked list: head and tail in the semaphore, next and prev in    *)
(* the node of each pending thread.  A link is "list" (the queue itself),  *)
(* "null", or a thread.  The node of a thread that does not pend is kept   *)
(* as null, null.                                                          *)
(***************************************************************************)
\* p->next = v or p->prev = v: next and prev of the queue are its head and tail; a
\* write through NULL lands in page 0 and changes nothing of the queue
DListWrite(sem, p, field, v) ==
    IF p = "list"
    THEN IF field = "next" THEN [sem EXCEPT !.head = v] ELSE [sem EXCEPT !.tail = v]
    ELSE IF p \in Threads
    THEN IF field = "next" THEN [sem EXCEPT !.links[p].next = v]
                           ELSE [sem EXCEPT !.links[p].prev = v]
    ELSE sem

\* sys_dlist_append: node->next = list, node->prev = tail, tail->next = node,
\* list->tail = node
sys_dlist_append(sem, t) ==
    LET linked == [sem EXCEPT !.links[t] = [next |-> "list", prev |-> sem.tail]]
    IN [DListWrite(linked, sem.tail, "next", t) EXCEPT !.tail = t]

\* sys_dlist_insert: the node is linked in front of successor
sys_dlist_insert(sem, successor, t) ==
    LET prev == sem.links[successor].prev
        linked == [sem EXCEPT !.links[t] = [next |-> successor, prev |-> prev]]
    IN [DListWrite(linked, prev, "next", t) EXCEPT !.links[successor].prev = t]

\* sys_dlist_remove: prev->next = next, next->prev = prev, whatever the links of
\* the node point at; the node is cleared
sys_dlist_remove(sem, t) ==
    LET prev == sem.links[t].prev
        next == sem.links[t].next
        unlinked == DListWrite(DListWrite(sem, prev, "next", next), next, "prev", prev)
    IN [unlinked EXCEPT !.links[t] = [next |-> "null", prev |-> "null"]]

\* the threads a walk of the queue from node n meets: it ends at the tail, at NULL
\* and at the queue itself
RECURSIVE WaitQueueWalk(_, _, _)
WaitQueueWalk(sem, n, k) ==
    IF n \notin Threads \/ k = 0 THEN {}
    ELSE {n} \cup (IF n = sem.tail THEN {}
                   ELSE WaitQueueWalk(sem, sem.links[n].next, k - 1))

\* the thread pends: it is linked in front of the first thread of lower priority the
\* walk meets, else appended (the priorities are set by the build configuration)
z_priq_dumb_add(sem, t) ==
    {sys_dlist_append(sem, t)}
        \cup {sys_dlist_insert(sem, u, t) :
                 u \in WaitQueueWalk(sem, sem.head, Cardinality(Threads)) \ {t}}

\* k_sem_init(&sem, 0, 1): the wait queue is made empty; the nodes of the threads
\* that pend on it keep their links
SemInit(sem) == [sem EXCEPT !.count = 0, !.limit = 1, !.head = "list", !.tail = "list"]

\* k_sem_reset: every thread found at the head of the queue is unlinked and returns
\* -EAGAIN, then count = 0
RECURSIVE SemReset(_)
SemReset(sem) ==
    IF sem.head \in Threads /\ sem.links[sem.head].prev = "list"
    THEN SemReset(sys_dlist_remove(sem, sem.head))
    ELSE [sem EXCEPT !.count = 0]

RECURSIVE SemResetWakes(_, _)
SemResetWakes(sem, sr) ==
    IF sem.head \in Threads /\ sem.links[sem.head].prev = "list"
    THEN SemResetWakes(sys_dlist_remove(sem, sem.head), [sr EXCEPT ![sem.head] = "-EAGAIN"])
    ELSE sr

(***************************************************************************)
(* net_mgmt's list of event callbacks: the callback structs of main.c      *)
(* (wifi_cb), of the scanner (scan_cb) and of the AP controller (ap_cb),   *)
(* newest first; each struct holds the link to the next one.               *)
(***************************************************************************)
IndexOf(list, cb) == CHOOSE i \in 1..Len(list) : list[i] = cb

InList(list, cb) == \E i \in 1..Len(list) : list[i] = cb

\* the struct that holds cb is zeroed by memset while cb is linked: its link to the
\* next callback is lost, the list ends at cb
MemsetNode(list, cb) ==
    IF InList(list, cb) THEN SubSeq(list, 1, IndexOf(list, cb)) ELSE list

\* net_mgmt_add_event_callback(cb): cb is removed if it is in the list, then
\* put at the head
net_mgmt_add_event_callback(list, cb) ==
    <<cb>> \o SelectSeq(list, LAMBDA x : x # cb)

\* events are delivered to cb
Registered(cb) == InList(plat.callbacks, cb)

(***************************************************************************)
(* struct wifi_scanner after static zero-initialisation.                   *)
(***************************************************************************)
ScannerZero ==
    [results |-> <<>>,
     result_count |-> 0,
     state |-> "IDLE",
     scan_status |-> 0,
     scan_sem |-> [count |-> 0, limit |-> 0, head |-> "null", tail |-> "null",
                   links |-> [t \in Threads |-> [next |-> "null", prev |-> "null"]]],
     scan_cb |-> [handler |-> "none", mask |-> {}]]

(***************************************************************************)
(* Notification handlers (net_mgmt thread).                                *)
(***************************************************************************)
\* faulty variant: the capacity check is missing
wifi_scan_result_handler_NoBound(mgmt_event, entry) ==
    /\ scanner' =
         IF mgmt_event # "SCAN_RESULT" THEN scanner
         ELSE [scanner EXCEPT !.results = Append(scanner.results, entry),
                              !.result_count = scanner.result_count + 1]
    /\ UNCHANGED semret

wifi_scan_result_handler(mgmt_event, entry) ==
    /\ scanner' =
         IF mgmt_event # "SCAN_RESULT" THEN scanner
         ELSE IF scanner.result_count >= WIFI_SCANNER_MAX_RESULTS THEN scanner
         ELSE [scanner EXCEPT !.results = Append(scanner.results, entry),
                              !.result_count = scanner.result_count + 1]
    /\ UNCHANGED semret

\* k_sem_give: hands the semaphore to the thread at the head of the wait queue,
\* else counts up to the limit
SemGive(sc) ==
    IF sc.scan_sem.head \in Threads
    THEN /\ scanner' = [sc EXCEPT !.scan_sem = sys_dlist_remove(@, sc.scan_sem.head)]
         /\ semret' = [semret EXCEPT ![sc.scan_sem.head] = "0"]
    ELSE /\ scanner' = [sc EXCEPT !.scan_sem.count =
                                     Min(sc.scan_sem.count + 1, sc.scan_sem.limit)]
         /\ UNCHANGED semret

wifi_scan_done_handler(mgmt_event, status) ==
    IF mgmt_event # "SCAN_DONE"
    THEN UNCHANGED <<scanner, semret>>
    ELSE IF status = 0
         THEN SemGive([scanner EXCEPT !.state = "COMPLETE", !.scan_status = 0])
         ELSE SemGive([scanner EXCEPT !.state = "FAILED", !.scan_status = status])

\* net_mgmt: an event goes to the handler the callback struct holds, if the struct is
\* in the callback list and its mask has the event
Dispatch(mgmt_event, info) ==
    IF Registered("scan_cb") /\ mgmt_event \in scanner.scan_cb.mask
    THEN IF scanner.scan_cb.handler = "wifi_scan_result_handler"
         THEN wifi_scan_result_handler(mgmt_event, info)
         ELSE wifi_scan_done_handler(mgmt_event, info)
    ELSE UNCHANGED <<scanner, semret>>

DoneHandlerListens ==
    /\ Registered("scan_cb")
    /\ scanner.scan_cb.handler = "wifi_scan_done_handler"
    /\ "SCAN_DONE" \in scanner.scan_cb.mask

\* the platform reports one more network of a scan in flight
PlatformScanResult ==
    /\ NJobs(jobs) > 0
    /\ narrived < nlimit
    /\ Dispatch("SCAN_RESULT", narrived + 1)
    /\ narrived' = narrived + 1
    /\ UNCHANGED <<jobs, own_done, any_done, tmo, envVars, threadVars>>

\* the platform completes a scan in flight with a status
PlatformScanDone ==
    \E s \in ScanDoneStatuses :
        /\ Dispatch("SCAN_DONE", s)
        /\ any_done' = [t \in Threads |-> any_done[t] \/ DoneHandlerListens]
        /\ \/ \E t \in jobs.live :
                 /\ jobs' = [jobs EXCEPT !.live = jobs.live \ {t}]
                 /\ own_done' = [own_done EXCEPT ![t] =
                                   [got |-> DoneHandlerListens /\ semret[t] # "-EAGAIN",
                                    status |-> s]]
           \/ /\ jobs.stale > 0
              /\ jobs' = [jobs EXCEPT !.stale = jobs.stale - 1]
              /\ UNCHANGED own_done
        /\ UNCHANGED <<narrived, tmo, envVars, threadVars>>

(***************************************************************************)
(* wifi_scanner_init                                                       *)
(***************************************************************************)
\* memset (of scan_cb too, linked or not), state, k_sem_init, first registration
\* of scan_cb
ScannerInit1(t) ==
    /\ pc[t] = "init_1"
    /\ scanner' = [ScannerZero EXCEPT
                     !.scan_sem = SemInit(scanner.scan_sem),
                     !.scan_cb = [handler |-> "wifi_scan_result_handler",
                                  mask |-> {"SCAN_RESULT"}]]
    /\ plat' = [plat EXCEPT !.callbacks =
                   net_mgmt_add_event_callback(MemsetNode(@, "scan_cb"), "scan_cb")]
    /\ narrived' = 0
    /\ Goto(t, "init_2")
    /\ UNCHANGED <<jobs, own_done, any_done, tmo, semret, nlimit, has_iface, app,
                   wifi_connected_sem, store, http_srv, ap_prov, ap_g, net, hc, args,
                   mlog, cblog, gui>>

\* second registration of the same scan_cb: handler and mask are overwritten
ScannerInit2(t) ==
    /\ pc[t] = "init_2"
    /\ scanner' = [scanner EXCEPT
                     !.scan_cb = [handler |-> "wifi_scan_done_handler",
                                  mask |-> {"SCAN_RESULT", "SCAN_DONE"}]]
    /\ plat' = [plat EXCEPT !.callbacks = net_mgmt_add_event_callback(@, "scan_cb")]
    /\ Return(t, 0)
    /\ UNCHANGED <<jobs, narrived, own_done, any_done, tmo, semret, nlimit, has_iface,
                   app, wifi_connected_sem, store, http_srv, ap_prov, ap_g, net, hc, args,
                   mlog, cblog, gui>>

(***************************************************************************)
(* wifi_scanner_clear_results / wifi_scanner_get_results                   *)
(***************************************************************************)
wifi_scanner_clear_results(sc) ==
    [sc EXCEPT !.results = <<>>, !.result_count = 0]

wifi_scanner_get_results ==
    [results |-> scanner.results, count |-> scanner.result_count]

(***************************************************************************)
(* wifi_scanner_scan                                                       *)
(***************************************************************************)
\* faulty variant: the Busy check is missing
ScanCheck_NoBusy(t) ==
    /\ pc[t] = "scan_check"
    /\ IF ~has_iface THEN Return(t, -ENODEV)
       ELSE Goto(t, "scan_clear")
    /\ UNCHANGED <<scannerVars, envVars>>

\* the Busy check and the interface lookup
ScanCheck(t) ==
    /\ pc[t] = "scan_check"
    /\ IF scanner.state = "SCANNING" THEN Return(t, -EBUSY)
       ELSE IF ~has_iface THEN Return(t, -ENODEV)
       ELSE Goto(t, "scan_clear")
    /\ UNCHANGED <<scannerVars, envVars>>

\* clear previous results, reset the semaphore
ScanClear(t) ==
    /\ pc[t] = "scan_clear"
    /\ scanner' = [wifi_scanner_clear_results(scanner) EXCEPT
                     !.scan_sem = SemReset(scanner.scan_sem)]
    /\ semret' = SemResetWakes(scanner.scan_sem, semret)
    /\ narrived' = 0
    /\ any_done' = [any_done EXCEPT ![t] = FALSE]
    /\ Goto(t, "scan_request")
    /\ UNCHANGED <<jobs, own_done, tmo, envVars>>

\* state := Scanning, then the scan request to the platform
ScanRequest(t) ==
    /\ pc[t] = "scan_request"
    /\ \/ /\ NJobs(jobs) < MaxJobs
          /\ scanner' = [scanner EXCEPT !.state = "SCANNING", !.scan_status = 0]
          /\ jobs' = [jobs EXCEPT !.live = jobs.live \cup {t}]
          /\ Goto(t, "scan_take")
       \/ \E e \in RequestErrors :
             /\ scanner' = [scanner EXCEPT !.state = "FAILED", !.scan_status = e]
             /\ jobs' = jobs
             /\ Return(t, e)
    /\ UNCHANGED <<narrived, own_done, any_done, tmo, semret, envVars>>

\* timeout defaulting and k_sem_take: takes at once or pends.  On a scanner that
\* wifi_scanner_init never initialised the semaphore is all zero and pending on its
\* wait queue is undefined: the thread pends, or it faults inside k_sem_take and
\* scan() never returns
ScanTake(t) ==
    /\ pc[t] = "scan_take"
    /\ tmo' = [tmo EXCEPT ![t].eff = IF tmo[t].eff = 0 THEN DEFAULT_SCAN_TIMEOUT_MS
                                                        ELSE tmo[t].eff]
    /\ IF scanner.scan_sem.count > 0
       THEN /\ scanner' = [scanner EXCEPT !.scan_sem.count = scanner.scan_sem.count - 1]
            /\ semret' = [semret EXCEPT ![t] = "0"]
            /\ Goto(t, "scan_pending")
       ELSE \/ /\ \E q \in z_priq_dumb_add(scanner.scan_sem, t) :
                     scanner' = [scanner EXCEPT !.scan_sem = q]
               /\ semret' = [semret EXCEPT ![t] = "pending"]
               /\ Goto(t, "scan_pending")
            \/ /\ scanner.scan_sem.limit = 0
               /\ UNCHANGED <<scanner, semret>>
               /\ Goto(t, "fault")
    /\ UNCHANGED <<jobs, narrived, own_done, any_done, envVars>>

\* the wait of k_sem_take expires: the thread unlinks itself from the wait queue.
\* A thread under which the queue was initialised (k_sem_init in
\* wifi_scanner_init) is no longer in it, but its links are as they were.  If it
\* pended on an initialised queue they point at the queue: unlinking it leaves the
\* queue empty, and a thread that pended since is found neither by k_sem_give nor
\* by k_sem_reset.  If it pended on the all-zero queue its prev is NULL: unlinking
\* it sets the tail to NULL and leaves the head, and a thread that pends after
\* that is linked through the NULL tail and not found from the head
ScanTimeout(t) ==
    /\ pc[t] = "scan_pending"
    /\ semret[t] = "pending"
    /\ scanner' = [scanner EXCEPT !.scan_sem = sys_dlist_remove(@, t)]
    /\ semret' = [semret EXCEPT ![t] = "-EAGAIN"]
    /\ UNCHANGED <<jobs, narrived, own_done, any_done, tmo, envVars, threadVars>>

\* the request of a scan() that returns stays in flight at the platform
Retire(js, t) ==
    IF t \in js.live THEN [live |-> js.live \ {t}, stale |-> js.stale + 1] ELSE js

\* k_sem_take has returned: the timeout branch or the status of the scan
ScanWoken(t) ==
    /\ pc[t] = "scan_pending"
    /\ semret[t] # "pending"
    /\ IF semret[t] = "-EAGAIN"
       THEN /\ scanner' = [scanner EXCEPT !.state = "FAILED", !.scan_status = -ETIMEDOUT]
            /\ Return(t, -ETIMEDOUT)
       ELSE /\ scanner' = scanner
            /\ Return(t, IF scanner.scan_status # 0 THEN scanner.scan_status ELSE 0)
    /\ jobs' = Retire(jobs, t)
    /\ UNCHANGED <<narrived, own_done, any_done, tmo, semret, envVars>>

(***************************************************************************)
(* Strings are sequences of characters.                                    *)
(***************************************************************************)
Empty == <<>>
Home == <<"H", "o", "m", "e">>
MyPassword == <<"m", "y", "p", "a", "s", "s", "w", "o", "r", "d">>
Old == <<"O", "l", "d">>
OldPass == <<"o", "p", "w">>
PicoWSetup == <<"P", "i", "c", "o", "W", "-", "S", "e", "t", "u", "p">>

\* strncpy(dst, src, n); dst[n] = 0
StrNCpy(src, n) == SubSeq(src, 1, Min(Len(src), n))

(***************************************************************************)
(* Settings storage (main.c, handler of the "demo" subtree).  The storage  *)
(* accepts every write.                                                    *)
(***************************************************************************)
NoKey == [set |-> FALSE, val |-> Empty]
Key(v) == [set |-> TRUE, val |-> v]

\* settings_save() -> demo_handle_export: a value is written only if it is not empty
settings_save(st, a) ==
    [wifi_ssid |-> IF Len(a.wifi_ssid) > 0 THEN Key(a.wifi_ssid) ELSE st.wifi_ssid,
     wifi_psk |-> IF Len(a.wifi_psk) > 0 THEN Key(a.wifi_psk) ELSE st.wifi_psk]

\* settings_load() -> demo_handle_set for each stored key
settings_load(st, a) ==
    LET ok_ssid == st.wifi_ssid.set /\ Len(st.wifi_ssid.val) <= WIFI_SSID_MAX
        ok_psk == st.wifi_psk.set /\ Len(st.wifi_psk.val) <= WIFI_PSK_MAX
    IN [a EXCEPT !.wifi_ssid = IF ok_ssid THEN st.wifi_ssid.val ELSE a.wifi_ssid,
                 !.wifi_psk = IF ok_psk THEN st.wifi_psk.val ELSE a.wifi_psk,
                 !.wifi_credentials_set = IF ok_psk THEN TRUE ELSE a.wifi_credentials_set]

\* main.c statics at program start
AppZero ==
    [wifi_ssid |-> Empty, wifi_psk |-> Empty, wifi_credentials_set |-> FALSE,
     wifi_connected |-> FALSE, provisioning_mode |-> FALSE]

(***************************************************************************)
(* Station connection: wifi_mgmt_event_handler and wifi_connect_stored.    *)
(***************************************************************************)
\* k_sem_give(&wifi_connected_sem)
ConnSemGive ==
    IF wifi_connected_sem.waiters # {}
    THEN \E w \in wifi_connected_sem.waiters :
            /\ wifi_connected_sem' = [wifi_connected_sem EXCEPT !.waiters = @ \ {w}]
            /\ semret' = [semret EXCEPT ![w] = "0"]
    ELSE /\ wifi_connected_sem' = [wifi_connected_sem EXCEPT !.count = Min(@ + 1, 1)]
         /\ UNCHANGED semret

wifi_mgmt_event_handler(mgmt_event, status) ==
    IF mgmt_event = "CONNECT_RESULT"
    THEN /\ app' = IF status = 0 THEN [app EXCEPT !.wifi_connected = TRUE] ELSE app
         /\ ConnSemGive
    ELSE IF mgmt_event = "DISCONNECT_RESULT"
    THEN /\ app' = [app EXCEPT !.wifi_connected = FALSE]
         /\ UNCHANGED <<wifi_connected_sem, semret>>
    ELSE UNCHANGED <<app, wifi_connected_sem, semret>>

\* the platform answers a station-connect request
PlatformConnectResult ==
    /\ plat.conn_pending > 0
    /\ \E s \in {0, 1} :
          IF Registered("wifi_cb")
          THEN /\ wifi_mgmt_event_handler("CONNECT_RESULT", s)
               /\ plat' = [plat EXCEPT !.conn_pending = @ - 1,
                                       !.conn_ok = IF s = 0 THEN Threads ELSE @]
          ELSE /\ UNCHANGED <<app, wifi_connected_sem, semret>>
               /\ plat' = [plat EXCEPT !.conn_pending = @ - 1]
    /\ UNCHANGED <<gui, scanner, jobs, narrived, own_done, any_done, tmo, nlimit, has_iface,
                   store, http_srv, ap_prov, ap_g, net, hc, args, mlog, cblog, threadVars>>

\* the interface and SSID checks, k_sem_reset, the connect request
ConnectStoredRequest(t) ==
    /\ pc[t] = "wcs_request"
    /\ IF ~has_iface THEN
          /\ Return(t, -ENODEV)
          /\ UNCHANGED <<wifi_connected_sem, semret, plat, cblog>>
       ELSE IF Len(app.wifi_ssid) = 0 THEN
          /\ Return(t, -EINVAL)
          /\ UNCHANGED <<wifi_connected_sem, semret, plat, cblog>>
       ELSE
          /\ wifi_connected_sem' = [wifi_connected_sem EXCEPT !.count = 0, !.waiters = {}]
          /\ semret' = [u \in Threads |->
                          IF u \in wifi_connected_sem.waiters THEN "-EAGAIN" ELSE semret[u]]
          /\ plat' = [plat EXCEPT !.conn_pending = @ + 1,
                                  !.conn_ssids = Append(@, app.wifi_ssid),
                                  !.conn_ok = @ \ {t}]
          /\ cblog' = IF InCallback(t)
                      THEN Append(cblog, [ev |-> "connect_request", ssid |-> app.wifi_ssid])
                      ELSE cblog
          /\ Goto(t, "wcs_take")
    /\ UNCHANGED <<gui, scanner, jobs, narrived, own_done, any_done, tmo, nlimit, has_iface,
                   app, store, http_srv, ap_prov, ap_g, net, hc, args, mlog>>

\* k_sem_take(&wifi_connected_sem, K_SECONDS(30)): takes at once or pends
ConnectStoredTake(t) ==
    /\ pc[t] = "wcs_take"
    /\ IF wifi_connected_sem.count > 0
       THEN /\ wifi_connected_sem' = [wifi_connected_sem EXCEPT !.count = @ - 1]
            /\ semret' = [semret EXCEPT ![t] = "0"]
       ELSE /\ wifi_connected_sem' = [wifi_connected_sem EXCEPT !.waiters = @ \cup {t}]
            /\ semret' = [semret EXCEPT ![t] = "pending"]
    /\ Goto(t, "wcs_pending")
    /\ UNCHANGED <<gui, scanner, jobs, narrived, own_done, any_done, tmo, nlimit, has_iface,
                   app, store, http_srv, ap_prov, ap_g, plat, net, hc, args, mlog, cblog>>

\* the 30 s wait expires
ConnectStoredTimeout(t) ==
    /\ pc[t] = "wcs_pending"
    /\ semret[t] = "pending"
    /\ wifi_connected_sem' = [wifi_connected_sem EXCEPT !.waiters = @ \ {t}]
    /\ semret' = [semret EXCEPT ![t] = "-EAGAIN"]
    /\ UNCHANGED <<gui, scanner, jobs, narrived, own_done, any_done, tmo, nlimit, has_iface,
                   app, store, http_srv, ap_prov, ap_g, plat, net, hc, args, mlog, cblog,
                   threadVars>>

\* k_sem_take has returned: Timeout, or the connected flag decides
ConnectStoredWoken(t) ==
    /\ pc[t] = "wcs_pending"
    /\ semret[t] # "pending"
    /\ IF semret[t] # "0" THEN Return(t, -ETIMEDOUT)
       ELSE Return(t, IF app.wifi_connected THEN 0 ELSE -ENOEXEC)
    /\ semret' = [semret EXCEPT ![t] = "none"]
    /\ UNCHANGED <<gui, scanner, jobs, narrived, own_done, any_done, tmo, nlimit, has_iface,
                   app, wifi_connected_sem, store, http_srv, ap_prov, ap_g, plat, net, hc,
                   args, mlog, cblog>>

(***************************************************************************)
(* Access-point controller (wifi_ap_provisioning.c).                       *)
(***************************************************************************)
\* what net_mgmt returns to the AP-enable request: accepted, or AP mode unavailable
ApEnableReturns == {0, -EIO}
\* what net_mgmt returns to the AP-disable request: accepted, or refused
ApDisableReturns == {0, -EIO}
\* the status carried by the enable-result notification
ApEnableStatuses == {0, 1}

\* struct wifi_ap_provisioning in .bss, before wifi_ap_provisioning_init
ApZero == [state |-> "IDLE", ssid |-> Empty, password |-> Empty,
           credentials_received |-> FALSE, new_ssid |-> Empty, new_password |-> Empty]
ApGZero == [g_ap_instance |-> FALSE, g_creds_callback |-> "none"]

wifi_ap_event_handler(mgmt_event, status) ==
    IF ~ap_g.g_ap_instance THEN ap_prov
    ELSE IF mgmt_event = "AP_ENABLE_RESULT"
    THEN [ap_prov EXCEPT !.state = IF status = 0 THEN "ACTIVE" ELSE "FAILED"]
    ELSE IF mgmt_event = "AP_DISABLE_RESULT"
    THEN [ap_prov EXCEPT !.state = "IDLE"]
    ELSE ap_prov

\* wifi_ap_provisioning_init(ap, NULL): the struct after memset and the defaults
wifi_ap_provisioning_init ==
    [state |-> "IDLE", ssid |-> PicoWSetup, password |-> Empty,
     credentials_received |-> FALSE, new_ssid |-> Empty, new_password |-> Empty]

\* wifi_ap_provisioning_init: memset (of ap_cb too, linked or not), registration of
\* ap_cb
ApInitCallbacks(list) == net_mgmt_add_event_callback(MemsetNode(list, "ap_cb"), "ap_cb")

\* faulty variant: a start is rejected only while the access point is up
wifi_ap_provisioning_start_OnlyActive(ap, g, pl, cb, ret) ==
    IF ap.state = "ACTIVE"
    THEN [ap |-> ap, g |-> g, plat |-> pl, rc |-> -EALREADY]
    ELSE IF ~has_iface
    THEN [ap |-> ap, g |-> [g EXCEPT !.g_creds_callback = cb], plat |-> pl, rc |-> -ENODEV]
    ELSE IF ret # 0
    THEN [ap |-> [ap EXCEPT !.state = "FAILED"], g |-> [g EXCEPT !.g_creds_callback = cb],
          plat |-> pl, rc |-> ret]
    ELSE [ap |-> [ap EXCEPT !.state = "STARTING"], g |-> [g EXCEPT !.g_creds_callback = cb],
          plat |-> [pl EXCEPT !.ap_pending = Append(@, "AP_ENABLE_RESULT")], rc |-> 0]

\* faulty variant: an accepted enable request makes the state Active at once
wifi_ap_provisioning_start_Eager(ap, g, pl, cb, ret) ==
    IF ap.state \in {"ACTIVE", "STARTING"}
    THEN [ap |-> ap, g |-> g, plat |-> pl, rc |-> -EALREADY]
    ELSE IF ~has_iface
    THEN [ap |-> ap, g |-> [g EXCEPT !.g_creds_callback = cb], plat |-> pl, rc |-> -ENODEV]
    ELSE IF ret # 0
    THEN [ap |-> [ap EXCEPT !.state = "FAILED"], g |-> [g EXCEPT !.g_creds_callback = cb],
          plat |-> pl, rc |-> ret]
    ELSE [ap |-> [ap EXCEPT !.state = "ACTIVE"], g |-> [g EXCEPT !.g_creds_callback = cb],
          plat |-> [pl EXCEPT !.ap_pending = Append(@, "AP_ENABLE_RESULT")], rc |-> 0]

\* wifi_ap_provisioning_start(ap, cb, NULL) when net_mgmt returns ret:
\* the controller, the globals, the platform and the return value afterwards
wifi_ap_provisioning_start(ap, g, pl, cb, ret) ==
    IF ap.state \in {"ACTIVE", "STARTING"}
    THEN [ap |-> ap, g |-> g, plat |-> pl, rc |-> -EALREADY]
    ELSE IF ~has_iface
    THEN [ap |-> ap, g |-> [g EXCEPT !.g_creds_callback = cb], plat |-> pl, rc |-> -ENODEV]
    ELSE IF ret # 0
    THEN [ap |-> [ap EXCEPT !.state = "FAILED"], g |-> [g EXCEPT !.g_creds_callback = cb],
          plat |-> pl, rc |-> ret]
    ELSE [ap |-> [ap EXCEPT !.state = "STARTING"], g |-> [g EXCEPT !.g_creds_callback = cb],
          plat |-> [pl EXCEPT !.ap_pending = Append(@, "AP_ENABLE_RESULT")], rc |-> 0]

\* faulty variant: the disable request is issued whatever the state
wifi_ap_provisioning_stop_AnyState(ap, pl, ret) ==
    IF ~has_iface THEN [plat |-> pl, rc |-> -ENODEV]
    ELSE IF ret # 0 THEN [plat |-> [pl EXCEPT !.ap_refused = TRUE], rc |-> ret]
    ELSE [plat |-> [pl EXCEPT !.ap_pending = Append(@, "AP_DISABLE_RESULT")], rc |-> 0]

\* wifi_ap_provisioning_stop(ap) when net_mgmt returns ret: a refused request is
\* logged and ret is returned
wifi_ap_provisioning_stop(ap, pl, ret) ==
    IF ap.state # "ACTIVE" THEN [plat |-> pl, rc |-> -EALREADY]
    ELSE IF ~has_iface THEN [plat |-> pl, rc |-> -ENODEV]
    ELSE IF ret # 0 THEN [plat |-> [pl EXCEPT !.ap_refused = TRUE], rc |-> ret]
    ELSE [plat |-> [pl EXCEPT !.ap_pending = Append(@, "AP_DISABLE_RESULT")], rc |-> 0]

\* the platform answers the oldest AP request
PlatformApResult ==
    /\ plat.ap_pending # <<>>
    /\ \E s \in ApEnableStatuses :
          /\ Head(plat.ap_pending) = "AP_DISABLE_RESULT" => s = 0
          /\ ap_prov' = IF Registered("ap_cb")
                        THEN wifi_ap_event_handler(Head(plat.ap_pending), s)
                        ELSE ap_prov
    /\ plat' = [plat EXCEPT !.ap_pending = Tail(@)]
    /\ UNCHANGED <<scannerVars, nlimit, has_iface, app, wifi_connected_sem, store,
                   http_srv, ap_g, net, hc, args, mlog, cblog, threadVars>>

(***************************************************************************)
(* Configuration server (http_server.c).                                   *)
(***************************************************************************)
CRLFCRLF == <<"\r", "\n", "\r", "\n">>
PostConnect == <<"P", "O", "S", "T", " ", "/", "c", "o", "n", "n", "e", "c", "t">>
GetRoot == <<"G", "E", "T", " ", "/">>
SsidKey == <<"s", "s", "i", "d", "=">>
PasswordKey == <<"p", "a", "s", "s", "w", "o", "r", "d", "=">>
Amp == <<"&">>

\* the requests a client sends
ReqHome == PostConnect \o CRLFCRLF \o SsidKey \o Home \o Amp \o PasswordKey \o MyPassword
ReqEmptySsid == PostConnect \o CRLFCRLF \o SsidKey \o Amp \o PasswordKey \o <<"x">>
ReqNoSsid == PostConnect \o CRLFCRLF \o PasswordKey \o <<"x">>
ReqGet == GetRoot \o CRLFCRLF
\* a POST /connect cut off before the blank line
ReqNoBlank == PostConnect \o <<"\r", "\n">> \o SsidKey \o Home
\* Empty: the client closes without sending (recv returns 0)
Requests == {ReqHome, ReqEmptySsid, ReqNoSsid, ReqNoBlank, ReqGet, Empty}

\* s[i..] starts with p
MatchAt(s, p, i) == i + Len(p) - 1 <= Len(s) /\ SubSeq(s, i, i + Len(p) - 1) = p

\* strstr: the index of the first occurrence of p in s, 0 if there is none
StrStr(s, p) ==
    IF \E i \in 1..Len(s) : MatchAt(s, p, i)
    THEN CHOOSE i \in 1..Len(s) : MatchAt(s, p, i) /\ \A j \in 1..(i - 1) : ~MatchAt(s, p, j)
    ELSE 0

\* strchr from index i on: the index of the first c, 0 if there is none
StrChr(s, c, i) ==
    IF \E j \in i..Len(s) : s[j] = c
    THEN CHOOSE j \in i..Len(s) : s[j] = c /\ \A k \in i..(j - 1) : s[k] # c
    ELSE 0

\* replace + with space
PlusToSpace(s) == [i \in 1..Len(s) |-> IF s[i] = "+" THEN " " ELSE s[i]]

\* the value that follows the key found at index k, cut at & or the end and at max bytes
FieldAt(data, k, klen, max) ==
    LET start == k + klen
        amp == StrChr(data, "&", start)
        stop == IF amp = 0 THEN Len(data) + 1 ELSE amp
    IN PlusToSpace(SubSeq(data, start, start + Min(stop - start, max) - 1))

parse_post_data(data) ==
    LET s == StrStr(data, SsidKey)
        p == StrStr(data, PasswordKey)
    IN IF s = 0 THEN [rc |-> -1, ssid |-> Empty, password |-> Empty]
       ELSE [rc |-> 0,
             ssid |-> FieldAt(data, s, 5, 32),
             password |-> IF p = 0 THEN Empty ELSE FieldAt(data, p, 9, 64)]

\* struct http_server in .bss, and after http_server_init
HttpZero == [state |-> "STOPPED", running |-> FALSE, listen_sock |-> 0,
             creds_cb |-> "none", has_scanner |-> FALSE]
http_server_init == [HttpZero EXCEPT !.has_scanner = TRUE]

\* the memset of http_server_init zeroes server_thread too, the thread object in
\* the structure: a server thread that is alive has lost its saved context and
\* runs no more.  If it waits in accept(), a connection is still accepted for it
ServerThreadZeroed ==
    IF pc["http"] \in {"off", "exited", "fault"} THEN pc["http"]
    ELSE IF pc["http"] = "ht_accept" THEN "ht_accept_lost"
    ELSE "fault"

\* the descriptors sockets get: 0 to 2 are the standard streams
FdTable == 3..MaxFd

\* socks: what each descriptor is (free, a socket made by socket(), that socket
\* once listen() succeeded, an accepted connection); accept_fd: the descriptor the
\* accept() of the server thread was called on; client, client_fd: the connection
\* handle_client was given
NetZero == [socks |-> [fd \in FdTable |-> "free"], accept_fd |-> -1,
            client |-> "none", client_fd |-> -1, request |-> Empty, sent |-> <<>>]

\* the descriptor a new socket gets: the lowest free one, -1 if the table is full
FreeFd(n) ==
    IF \E fd \in FdTable : n.socks[fd] = "free"
    THEN CHOOSE fd \in FdTable :
            n.socks[fd] = "free" /\ \A g \in FdTable : n.socks[g] = "free" => fd <= g
    ELSE -1

\* fd is an open socket
IsOpen(n, fd) == fd \in FdTable /\ n.socks[fd] # "free"

\* fd is a socket made by socket(), listening or not
IsServerSock(n, fd) == fd \in FdTable /\ n.socks[fd] \in {"socket", "listening"}

\* fd is a socket on which listen() succeeded
IsListening(n, fd) == fd \in FdTable /\ n.socks[fd] = "listening"

\* close(fd): the descriptor is freed if it is a socket; any other value (0 after
\* http_server_init, -1) leaves the sockets as they are
CloseSock(n, fd) ==
    IF fd \in FdTable THEN [n EXCEPT !.socks[fd] = "free"] ELSE n

\* results of the three socket calls of the server thread
SocketResults == {"ok", "fail"}

\* http_server_start(server, cb, NULL): creates the server thread
HttpServerStart(t, cb, next) ==
    IF http_srv.state = "RUNNING"
    THEN /\ UNCHANGED http_srv
         /\ pc' = [pc EXCEPT ![t] = next]
         /\ rv' = [rv EXCEPT ![t] = -EALREADY]
         /\ UNCHANGED stack
    ELSE /\ http_srv' = [http_srv EXCEPT !.creds_cb = cb, !.running = TRUE,
                                         !.state = "STARTING"]
         /\ pc' = [pc EXCEPT ![t] = next, !["http"] = "ht_socket"]
         /\ stack' = [stack EXCEPT !["http"] = <<>>]
         /\ rv' = [rv EXCEPT ![t] = 0]

\* socket(): the new socket gets the lowest free descriptor
HttpThreadSocket ==
    /\ pc["http"] = "ht_socket"
    /\ \E r \in SocketResults :
          IF r = "ok" /\ FreeFd(net) # -1
          THEN /\ http_srv' = [http_srv EXCEPT !.listen_sock = FreeFd(net)]
               /\ net' = [net EXCEPT !.socks[FreeFd(net)] = "socket"]
               /\ Goto("http", "ht_bind")
          ELSE /\ http_srv' = [http_srv EXCEPT !.listen_sock = -1, !.state = "FAILED"]
               /\ net' = net
               /\ Goto("http", "exited")
    /\ UNCHANGED <<hc, scannerVars, nlimit, has_iface, app, wifi_connected_sem, store,
                   ap_prov, ap_g, plat, args, mlog, cblog, semret>>

\* bind(): it fails on a descriptor that is no socket
HttpThreadBind ==
    /\ pc["http"] = "ht_bind"
    /\ \E r \in SocketResults :
          IF r = "ok" /\ IsServerSock(net, http_srv.listen_sock)
          THEN /\ UNCHANGED <<http_srv, net>>
               /\ Goto("http", "ht_listen")
          ELSE /\ http_srv' = [http_srv EXCEPT !.state = "FAILED"]
               /\ net' = CloseSock(net, http_srv.listen_sock)
               /\ Goto("http", "exited")
    /\ UNCHANGED <<hc, scannerVars, nlimit, has_iface, app, wifi_connected_sem, store,
                   ap_prov, ap_g, plat, args, mlog, cblog, semret>>

\* faulty variant: the state becomes Running whatever listen() returns
HttpThreadListen_Always ==
    /\ pc["http"] = "ht_listen"
    /\ \E r \in SocketResults :
          IF r = "ok" /\ IsServerSock(net, http_srv.listen_sock)
          THEN /\ http_srv' = [http_srv EXCEPT !.state = "RUNNING"]
               /\ net' = [net EXCEPT !.socks[http_srv.listen_sock] = "listening"]
               /\ Goto("http", "ht_loop")
          ELSE /\ http_srv' = [http_srv EXCEPT !.state = "RUNNING"]
               /\ net' = CloseSock(net, http_srv.listen_sock)
               /\ Goto("http", "exited")
    /\ UNCHANGED <<hc, scannerVars, nlimit, has_iface, app, wifi_connected_sem, store,
                   ap_prov, ap_g, plat, args, mlog, cblog, semret>>

\* listen(): it fails on a descriptor that is no socket; on success the state
\* becomes Running
HttpThreadListen ==
    /\ pc["http"] = "ht_listen"
    /\ \E r \in SocketResults :
          IF r = "ok" /\ IsServerSock(net, http_srv.listen_sock)
          THEN /\ http_srv' = [http_srv EXCEPT !.state = "RUNNING"]
               /\ net' = [net EXCEPT !.socks[http_srv.listen_sock] = "listening"]
               /\ Goto("http", "ht_loop")
          ELSE /\ http_srv' = [http_srv EXCEPT !.state = "FAILED"]
               /\ net' = CloseSock(net, http_srv.listen_sock)
               /\ Goto("http", "exited")
    /\ UNCHANGED <<hc, scannerVars, nlimit, has_iface, app, wifi_connected_sem, store,
                   ap_prov, ap_g, plat, args, mlog, cblog, semret>>

\* while (server->running): accept(server->listen_sock, ...) is called
HttpThreadLoop ==
    /\ pc["http"] = "ht_loop"
    /\ IF http_srv.running
       THEN /\ net' = [net EXCEPT !.accept_fd = http_srv.listen_sock]
            /\ Goto("http", "ht_accept")
       ELSE /\ net' = net
            /\ Goto("http", "ht_exit")
    /\ UNCHANGED <<hc, scannerVars, nlimit, has_iface, app, wifi_connected_sem, store,
                   http_srv, ap_prov, ap_g, plat, args, mlog, cblog, semret>>

\* accept() returns: a client has connected, its connection gets the lowest free
\* descriptor and it sends request r; or the call fails because its socket was
\* closed or is no listening socket, or because no descriptor is free
HttpThreadAccept ==
    /\ pc["http"] = "ht_accept"
    /\ IF IsListening(net, net.accept_fd) /\ FreeFd(net) # -1
       THEN \E r \in Requests :
               /\ net' = [net EXCEPT !.socks[FreeFd(net)] = "client",
                                      !.client = "open", !.client_fd = FreeFd(net),
                                      !.request = r, !.sent = <<>>]
               /\ Goto("http", "hc_handle")
       ELSE /\ net' = net
            /\ Goto("http", "ht_exit")
    /\ UNCHANGED <<hc, scannerVars, nlimit, has_iface, app, wifi_connected_sem, store,
                   http_srv, ap_prov, ap_g, plat, args, mlog, cblog, semret>>

\* accept() of a server thread whose thread object was zeroed: a client that
\* connects gets its descriptor, then the thread faults; handle_client is not
\* entered and the connection is never closed
HttpThreadAcceptLost ==
    /\ pc["http"] = "ht_accept_lost"
    /\ IF IsListening(net, net.accept_fd) /\ FreeFd(net) # -1
       THEN \E r \in Requests :
               net' = [net EXCEPT !.socks[FreeFd(net)] = "client",
                                  !.client = "open", !.client_fd = FreeFd(net),
                                  !.request = r, !.sent = <<>>]
       ELSE net' = net
    /\ Goto("http", "fault")
    /\ UNCHANGED <<hc, scannerVars, nlimit, has_iface, app, wifi_connected_sem, store,
                   http_srv, ap_prov, ap_g, plat, args, mlog, cblog, semret>>

\* an entry of the result buffer that holds no result (zeroed by memset)
EmptyEntry == 0

\* locals of handle_client outside the loop over the results
HcZero == [count |-> 0, i |-> 0]

\* the page sent for any request but POST /connect, before its entries are sent
ConfigPage == [kind |-> "page", networks |-> <<>>]
SuccessPage == [kind |-> "success"]

\* faulty variant: a POST /connect is answered and handed on whatever
\* parse_post_data returns
HandleClient_NoParseCheck ==
    /\ pc["http"] = "hc_handle"
    /\ LET buffer == net.request
           body == StrStr(buffer, CRLFCRLF)
           parsed == parse_post_data(SubSeq(buffer, body + 4, Len(buffer)))
       IN IF Len(buffer) = 0 THEN
             /\ net' = net
             /\ UNCHANGED args
             /\ Goto("http", "hc_close")
          ELSE IF MatchAt(buffer, PostConnect, 1) THEN
             IF body # 0 THEN
                /\ net' = [net EXCEPT !.sent = Append(@, SuccessPage)]
                /\ args' = [args EXCEPT !["http"] =
                               [ssid |-> parsed.ssid, password |-> parsed.password]]
                /\ Goto("http", "hc_callback")
             ELSE
                /\ net' = net
                /\ UNCHANGED args
                /\ Goto("http", "hc_close")
          ELSE
             /\ net' = [net EXCEPT !.sent = Append(@, ConfigPage)]
             /\ UNCHANGED args
             /\ Goto("http", "hc_results")
    /\ UNCHANGED <<hc, scannerVars, nlimit, has_iface, app, wifi_connected_sem, store,
                   http_srv, ap_prov, ap_g, plat, mlog, cblog, semret>>

\* handle_client up to its first send(): recv, the request line, parse_post_data,
\* then the success page or the head of the configuration page is sent
HandleClient ==
    /\ pc["http"] = "hc_handle"
    /\ LET buffer == net.request
           body == StrStr(buffer, CRLFCRLF)
           parsed == parse_post_data(SubSeq(buffer, body + 4, Len(buffer)))
       IN IF Len(buffer) = 0 THEN
             /\ net' = net
             /\ UNCHANGED args
             /\ Goto("http", "hc_close")
          ELSE IF MatchAt(buffer, PostConnect, 1) THEN
             IF body # 0 /\ parsed.rc = 0 THEN
                /\ net' = [net EXCEPT !.sent = Append(@, SuccessPage)]
                /\ args' = [args EXCEPT !["http"] =
                               [ssid |-> parsed.ssid, password |-> parsed.password]]
                /\ Goto("http", "hc_callback")
             ELSE
                /\ net' = net
                /\ UNCHANGED args
                /\ Goto("http", "hc_close")
          ELSE
             /\ net' = [net EXCEPT !.sent = Append(@, ConfigPage)]
             /\ UNCHANGED args
             /\ Goto("http", "hc_results")
    /\ UNCHANGED <<hc, scannerVars, nlimit, has_iface, app, wifi_connected_sem, store,
                   http_srv, ap_prov, ap_g, plat, mlog, cblog, semret>>

\* after the success page was sent: server->creds_cb is read and, if set, called
\* with the ssid and password that parse_post_data left in handle_client's buffers
HandleClientCallback ==
    /\ pc["http"] = "hc_callback"
    /\ IF http_srv.creds_cb # "none"
       THEN Call("http", "pcr_store", "hc_close")
       ELSE Goto("http", "hc_close")
    /\ UNCHANGED <<net, hc, args, scannerVars, nlimit, has_iface, app, wifi_connected_sem,
                   store, http_srv, ap_prov, ap_g, plat, mlog, cblog, semret>>

\* after the head of the page was sent: server->scanner is read and the result
\* count is taken from wifi_scanner_get_results
HandleClientResults ==
    /\ pc["http"] = "hc_results"
    /\ hc' = [count |-> IF http_srv.has_scanner
                        THEN wifi_scanner_get_results.count ELSE 0,
              i |-> 0]
    /\ Goto("http", "hc_page")
    /\ UNCHANGED <<net, args, scannerVars, nlimit, has_iface, app, wifi_connected_sem,
                   store, http_srv, ap_prov, ap_g, plat, mlog, cblog, semret>>

\* the loop over the results: one send() per entry, each entry read from the
\* buffer when it is sent; after the last one the form is sent
HandleClientPage ==
    /\ pc["http"] = "hc_page"
    /\ IF hc.i < hc.count
       THEN /\ net' = [net EXCEPT !.sent[Len(net.sent)].networks =
                                     Append(@, IF hc.i + 1 <= Len(scanner.results)
                                               THEN scanner.results[hc.i + 1]
                                               ELSE EmptyEntry)]
            /\ hc' = [hc EXCEPT !.i = @ + 1]
            /\ UNCHANGED threadVars
       ELSE /\ net' = net
            /\ hc' = HcZero
            /\ Goto("http", "hc_close")
    /\ UNCHANGED <<scannerVars, nlimit, has_iface, app, wifi_connected_sem, store,
                   http_srv, ap_prov, ap_g, plat, args, mlog, cblog, semret>>

\* faulty variant: the client socket is left open
HandleClientClose_Leak ==
    /\ pc["http"] = "hc_close"
    /\ net' = net
    /\ Goto("http", "ht_loop")
    /\ UNCHANGED <<hc, scannerVars, nlimit, has_iface, app, wifi_connected_sem, store,
                   http_srv, ap_prov, ap_g, plat, args, mlog, cblog, semret>>

\* close(client_sock), back to the loop
HandleClientClose ==
    /\ pc["http"] = "hc_close"
    /\ net' = [CloseSock(net, net.client_fd) EXCEPT !.client = "closed"]
    /\ Goto("http", "ht_loop")
    /\ UNCHANGED <<hc, scannerVars, nlimit, has_iface, app, wifi_connected_sem, store,
                   http_srv, ap_prov, ap_g, plat, args, mlog, cblog, semret>>

\* after the loop: close(listen_sock), state Stopped, the thread ends
HttpThreadExit ==
    /\ pc["http"] = "ht_exit"
    /\ net' = CloseSock(net, http_srv.listen_sock)
    /\ http_srv' = [http_srv EXCEPT !.state = "STOPPED"]
    /\ Goto("http", "exited")
    /\ UNCHANGED <<hc, scannerVars, nlimit, has_iface, app, wifi_connected_sem, store,
                   ap_prov, ap_g, plat, args, mlog, cblog, semret>>

\* faulty variant: stop acts whatever the state
HttpStopCheck_AnyState(t) ==
    /\ pc[t] = "hs_check"
    /\ http_srv' = [http_srv EXCEPT !.running = FALSE]
    /\ Goto(t, "hs_close")
    /\ UNCHANGED <<net, hc, scannerVars, nlimit, has_iface, app, wifi_connected_sem, store,
                   ap_prov, ap_g, plat, args, mlog, cblog, semret>>

\* http_server_stop: the state check, then the running flag is cleared
HttpStopCheck(t) ==
    /\ pc[t] = "hs_check"
    /\ IF http_srv.state # "RUNNING" THEN
          /\ Return(t, -EALREADY)
          /\ UNCHANGED http_srv
       ELSE
          /\ http_srv' = [http_srv EXCEPT !.running = FALSE]
          /\ Goto(t, "hs_close")
    /\ UNCHANGED <<net, hc, scannerVars, nlimit, has_iface, app, wifi_connected_sem, store,
                   ap_prov, ap_g, plat, args, mlog, cblog, semret>>

\* http_server_stop: close(listen_sock) unless it is negative
HttpStopClose(t) ==
    /\ pc[t] = "hs_close"
    /\ net' = IF http_srv.listen_sock >= 0
              THEN CloseSock(net, http_srv.listen_sock)
              ELSE net
    /\ Goto(t, "hs_join")
    /\ UNCHANGED <<http_srv, hc, scannerVars, nlimit, has_iface, app, wifi_connected_sem,
                   store, ap_prov, ap_g, plat, args, mlog, cblog, semret>>

\* k_thread_join(&server->server_thread, K_SECONDS(5)): returns when the thread has
\* ended, at once when the caller is the server thread itself, or after 5 s
HttpStopJoin(t) ==
    /\ pc[t] = "hs_join"
    /\ Return(t, 0)
    /\ UNCHANGED <<scannerVars, nlimit, has_iface, orchVars, semret>>

(***************************************************************************)
(* main.c: provisioning_creds_received, run by the thread that received    *)
(* the credentials.                                                        *)
(***************************************************************************)
Ev(e) == [ev |-> e, ssid |-> Empty]

\* the credentials are copied into wifi_ssid / wifi_psk, each if it fits
CredsCopy(a, ssid, password) ==
    LET a1 == IF Len(ssid) <= WIFI_SSID_MAX
              THEN [a EXCEPT !.wifi_ssid = StrNCpy(ssid, WIFI_SSID_MAX)] ELSE a
    IN IF Len(password) <= WIFI_PSK_MAX
       THEN [a1 EXCEPT !.wifi_psk = StrNCpy(password, WIFI_PSK_MAX),
                       !.wifi_credentials_set = TRUE]
       ELSE a1

\* copy the credentials, settings_save()
CredsStore(t) ==
    /\ pc[t] = "pcr_store"
    /\ app' = CredsCopy(app, args[t].ssid, args[t].password)
    /\ store' = settings_save(store, app')
    /\ cblog' = Append(cblog, Ev("persist"))
    /\ Goto(t, "pcr_http_stop")
    /\ UNCHANGED <<scannerVars, nlimit, has_iface, wifi_connected_sem, http_srv,
                   ap_prov, ap_g, plat, net, hc, args, mlog, semret>>

\* http_server_stop(&http_srv)
CredsHttpStop(t) ==
    /\ pc[t] = "pcr_http_stop"
    /\ cblog' = Append(cblog, Ev("http_stop"))
    /\ Call(t, "hs_check", "pcr_ap_stop")
    /\ UNCHANGED <<scannerVars, nlimit, has_iface, app, wifi_connected_sem, store,
                   http_srv, ap_prov, ap_g, plat, net, hc, args, mlog, semret>>

\* wifi_ap_provisioning_stop(&ap_prov); provisioning_mode = false
CredsApStop(t) ==
    /\ pc[t] = "pcr_ap_stop"
    /\ \E ret \in ApDisableReturns :
          plat' = wifi_ap_provisioning_stop(ap_prov, plat, ret).plat
    /\ app' = [app EXCEPT !.provisioning_mode = FALSE]
    /\ cblog' = Append(cblog, Ev("ap_stop"))
    /\ Goto(t, "pcr_sleep")
    /\ UNCHANGED <<scannerVars, nlimit, has_iface, wifi_connected_sem, store,
                   http_srv, ap_prov, ap_g, net, hc, args, mlog, semret>>

\* k_msleep(2000), then wifi_connect_stored()
CredsSleep(t) ==
    /\ pc[t] = "pcr_sleep"
    /\ cblog' = Append(cblog, Ev("delay"))
    /\ Call(t, "wcs_request", "pcr_return")
    /\ UNCHANGED <<scannerVars, nlimit, has_iface, app, wifi_connected_sem, store,
                   http_srv, ap_prov, ap_g, plat, net, hc, args, mlog, semret>>

\* the callback returns to the server thread
CredsReturn(t) ==
    /\ pc[t] = "pcr_return"
    /\ Return(t, 0)
    /\ UNCHANGED <<scannerVars, nlimit, has_iface, orchVars, semret>>

(***************************************************************************)
(* main.c: start_provisioning_mode, start_http_server and main.            *)
(***************************************************************************)
\* the provisioning flag check, then wifi_scanner_init
ProvBegin(t) ==
    /\ pc[t] = "spm_begin"
    /\ IF app.provisioning_mode
       THEN Return(t, 0) /\ UNCHANGED mlog
       ELSE /\ Call(t, "init_1", "spm_scan")
            /\ mlog' = Append(mlog, "provisioning")
    /\ UNCHANGED <<scannerVars, nlimit, has_iface, app, wifi_connected_sem, store,
                   http_srv, ap_prov, ap_g, plat, net, hc, args, cblog, semret>>

\* wifi_scanner_scan(&scanner, 10000)
ProvScan(t) ==
    /\ pc[t] = "spm_scan"
    /\ tmo' = [tmo EXCEPT ![t] = [arg |-> CALLER_SCAN_TIMEOUT_MS,
                                  eff |-> CALLER_SCAN_TIMEOUT_MS]]
    /\ own_done' = [own_done EXCEPT ![t] = NoDone]
    /\ mlog' = Append(mlog, "scan")
    /\ Call(t, "scan_check", "spm_servers")
    /\ UNCHANGED <<gui, scanner, jobs, narrived, any_done, semret, nlimit, has_iface, app,
                   wifi_connected_sem, store, http_srv, ap_prov, ap_g, plat, net, hc, args,
                   cblog>>

\* http_server_init, wifi_ap_provisioning_init, wifi_ap_provisioning_start
ProvServers(t) ==
    /\ pc[t] = "spm_servers"
    /\ http_srv' = http_server_init
    /\ \E ret \in ApEnableReturns :
          LET r == wifi_ap_provisioning_start(wifi_ap_provisioning_init,
                       [ap_g EXCEPT !.g_ap_instance = TRUE],
                       [plat EXCEPT !.callbacks = ApInitCallbacks(@)],
                       "provisioning_creds_received", ret)
          IN /\ ap_prov' = r.ap
             /\ ap_g' = r.g
             /\ plat' = r.plat
             /\ IF r.rc # 0
                THEN /\ app' = [app EXCEPT !.provisioning_mode = FALSE]
                     /\ pc' = [pc EXCEPT ![t] = Head(stack[t]),
                                         !["http"] = ServerThreadZeroed]
                     /\ stack' = [stack EXCEPT ![t] = Tail(stack[t])]
                     /\ rv' = [rv EXCEPT ![t] = 0]
                ELSE /\ app' = app
                     /\ pc' = [pc EXCEPT ![t] = "spm_http_start",
                                         !["http"] = ServerThreadZeroed]
                     /\ UNCHANGED <<stack, rv>>
    /\ mlog' = mlog \o <<"http_init", "ap_init", "ap_start">>
    /\ UNCHANGED <<scannerVars, nlimit, has_iface, wifi_connected_sem, store, net, hc,
                   args, cblog, semret>>

\* http_server_start(&http_srv, provisioning_creds_received, NULL)
ProvHttpStart(t) ==
    /\ pc[t] = "spm_http_start"
    /\ HttpServerStart(t, "provisioning_creds_received", "spm_flag")
    /\ UNCHANGED <<scannerVars, nlimit, has_iface, app, wifi_connected_sem, store,
                   ap_prov, ap_g, plat, net, hc, args, mlog, cblog, semret>>

\* the server did not start: AP stop, the error is returned; else provisioning_mode = true
ProvFlag(t) ==
    /\ pc[t] = "spm_flag"
    /\ IF rv[t] # 0
       THEN /\ \E ret \in ApDisableReturns :
                  plat' = wifi_ap_provisioning_stop(ap_prov, plat, ret).plat
            /\ app' = app
            /\ Return(t, rv[t])
       ELSE /\ app' = [app EXCEPT !.provisioning_mode = TRUE]
            /\ plat' = plat
            /\ Return(t, 0)
    /\ UNCHANGED <<scannerVars, nlimit, has_iface, wifi_connected_sem, store, http_srv,
                   ap_prov, ap_g, net, hc, args, mlog, cblog, semret>>

\* start_http_server: nothing to do if the server runs; else k_msleep(3000)
StartHttpBegin(t) ==
    /\ pc[t] = "shs_begin"
    /\ IF http_srv.state = "RUNNING" THEN Return(t, 0)
       ELSE Goto(t, "shs_sleep")
    /\ UNCHANGED <<scannerVars, nlimit, has_iface, orchVars, semret>>

\* after the 3 s: wifi_scanner_init if the scanner is Idle
StartHttpWake(t) ==
    /\ pc[t] = "shs_sleep"
    /\ IF scanner.state = "IDLE" THEN Call(t, "init_1", "shs_server")
       ELSE Goto(t, "shs_server")
    /\ UNCHANGED <<scannerVars, nlimit, has_iface, orchVars, semret>>

\* http_server_init, http_server_start
StartHttpServer(t) ==
    /\ pc[t] = "shs_server"
    /\ LET inited == http_server_init
       IN /\ http_srv' = [inited EXCEPT !.creds_cb = "provisioning_creds_received",
                                        !.running = TRUE, !.state = "STARTING"]
          /\ pc' = [pc EXCEPT ![t] = Head(stack[t]), !["http"] = "ht_socket"]
          /\ stack' = [stack EXCEPT ![t] = Tail(stack[t]), !["http"] = <<>>]
          /\ rv' = [rv EXCEPT ![t] = 0]
    /\ UNCHANGED <<scannerVars, nlimit, has_iface, app, wifi_connected_sem, store,
                   ap_prov, ap_g, plat, net, hc, args, mlog, cblog, semret>>

\* what main finds when it checks the storage: flash_area_open, device_is_ready
\* and settings_subsys_init all succeed, or one of them fails
StorageChecks == {"ok", "failed"}

\* main up to the decision: the storage checks (if one fails main returns),
\* settings_load, settings_save, the station callback, the shell references
MainBoot ==
    /\ pc["main"] = "boot"
    /\ \E r \in StorageChecks :
          IF r = "failed"
          THEN /\ Goto("main", "m_exit")
               /\ UNCHANGED <<app, store, plat, mlog>>
          ELSE LET loaded == settings_load(store, app)
               IN /\ app' = loaded
                  /\ store' = settings_save(store, loaded)
                  /\ plat' = [plat EXCEPT !.callbacks =
                                 net_mgmt_add_event_callback(@, "wifi_cb")]
                  /\ IF Len(loaded.wifi_ssid) > 0 /\ loaded.wifi_credentials_set
                     THEN /\ mlog' = Append(mlog, "autoconnect")
                          /\ Goto("main", "m_auto")
                     ELSE /\ mlog' = mlog
                          /\ Call("main", "spm_begin", "m_loop")
    /\ UNCHANGED <<scannerVars, nlimit, has_iface, wifi_connected_sem, http_srv,
                   ap_prov, ap_g, net, hc, args, cblog>>

\* k_msleep(2000); wifi_connect_stored()
MainAutoConnect ==
    /\ pc["main"] = "m_auto"
    /\ Call("main", "wcs_request", "m_auto_ret")
    /\ UNCHANGED <<scannerVars, nlimit, has_iface, orchVars, semret>>

\* faulty variant: a failed automatic connection is tried again
MainAutoResult_Retry ==
    /\ pc["main"] = "m_auto_ret"
    /\ IF rv["main"] = 0
       THEN /\ mlog' = Append(mlog, "autoconnect_ok")
            /\ Call("main", "shs_begin", "m_loop")
       ELSE /\ mlog' = Append(mlog, "autoconnect_failed")
            /\ Call("main", "wcs_request", "m_loop")
    /\ UNCHANGED <<scannerVars, nlimit, has_iface, app, wifi_connected_sem, store,
                   http_srv, ap_prov, ap_g, plat, net, hc, args, cblog, semret>>

\* the result of the automatic connection
MainAutoResult ==
    /\ pc["main"] = "m_auto_ret"
    /\ IF rv["main"] = 0
       THEN /\ mlog' = Append(mlog, "autoconnect_ok")
            /\ Call("main", "shs_begin", "m_loop")
       ELSE /\ mlog' = Append(mlog, "autoconnect_failed")
            /\ Goto("main", "m_loop")
    /\ UNCHANGED <<scannerVars, nlimit, has_iface, app, wifi_connected_sem, store,
                   http_srv, ap_prov, ap_g, plat, net, hc, args, cblog, semret>>

(***************************************************************************)
(* The program: main from power-on, the server thread, the platform and    *)
(* the clients of the configuration server.                                *)
(***************************************************************************)
\* what the settings storage holds at power-on
StoredAtBoot ==
    { [wifi_ssid |-> NoKey, wifi_psk |-> NoKey],
      [wifi_ssid |-> Key(Old), wifi_psk |-> Key(OldPass)],
      [wifi_ssid |-> Key(Old), wifi_psk |-> NoKey],
      [wifi_ssid |-> NoKey, wifi_psk |-> Key(OldPass)] }

\* struct wifi_gui as wifi_gui_init leaves it: memset to zero, state Idle.  input
\* and data are the arguments of the last wifi_gui_handle_input (data is recorded
\* for a Char input only), calls the calls made to the credential callback and
\* display the calls the last operation made to the display operations.
GuiZero ==
    [state |-> "IDLE", creds_cb |-> "none", selected_network |-> 0,
     selected_ssid |-> Empty, entered_password |-> Empty, password_cursor |-> 0,
     input |-> "none", data |-> "NUL", calls |-> <<>>, display |-> <<>>]

\* the platform at power-on: no request outstanding, no AP-disable request
\* refused so far, no callback registered
PlatZero ==
    [ap_pending |-> <<>>, ap_refused |-> FALSE, conn_pending |-> 0, conn_ssids |-> <<>>,
     conn_ok |-> {}, callbacks |-> <<>>]

\* main.c and the components it owns at program start, on the platform pl
OrchOn(pl) ==
    /\ app = AppZero
    /\ wifi_connected_sem = [count |-> 0, waiters |-> {}]
    /\ http_srv = HttpZero
    /\ ap_prov = ApZero
    /\ ap_g = ApGZero
    /\ plat = pl
    /\ net = NetZero
    /\ hc = HcZero
    /\ args = [t \in Threads |-> [ssid |-> Empty, password |-> Empty]]
    /\ mlog = <<>>
    /\ cblog = <<>>

OrchZero == OrchOn(PlatZero)

\* the platform once wifi_scanner_init has run
PlatScannerInit == [PlatZero EXCEPT !.callbacks = <<"scan_cb">>]

(***************************************************************************)
(* Callers of the scanner: any sequence of init / scan / clear calls from  *)
(* the two contexts that hold a reference to it.                           *)
(***************************************************************************)
DrvInit(t) ==
    /\ pc[t] = "drv"
    /\ Call(t, "init_1", "drv_ret")
    /\ UNCHANGED <<scannerVars, envVars>>

\* wifi_scanner_scan(scanner, ms) is called, whether or not wifi_scanner_init ran
DrvScan(t) ==
    /\ pc[t] = "drv"
    /\ \E ms \in TimeoutArgs : tmo' = [tmo EXCEPT ![t] = [arg |-> ms, eff |-> ms]]
    /\ Call(t, "scan_check", "drv_ret")
    /\ UNCHANGED <<scanner, jobs, narrived, own_done, any_done, semret, envVars>>

DrvClear(t) ==
    /\ pc[t] = "drv"
    /\ scanner' = wifi_scanner_clear_results(scanner)
    /\ narrived' = 0
    /\ UNCHANGED <<jobs, own_done, any_done, tmo, semret, envVars, threadVars>>

\* the caller has looked at the result of its call
DrvReturn(t) ==
    /\ pc[t] = "drv_ret"
    /\ pc' = [pc EXCEPT ![t] = "drv"]
    /\ rv' = [rv EXCEPT ![t] = 0]
    /\ tmo' = [tmo EXCEPT ![t] = NoTimeout]
    /\ own_done' = [own_done EXCEPT ![t] = NoDone]
    /\ any_done' = [any_done EXCEPT ![t] = FALSE]
    /\ semret' = [semret EXCEPT ![t] = "none"]
    /\ UNCHANGED <<scanner, jobs, narrived, stack, envVars>>

InitCommon ==
    /\ scanner = ScannerZero
    /\ jobs = [live |-> {}, stale |-> 0]
    /\ narrived = 0
    /\ has_iface \in BOOLEAN
    /\ own_done = [t \in Threads |-> NoDone]
    /\ any_done = [t \in Threads |-> FALSE]
    /\ stack = [t \in Threads |-> <<>>]
    /\ rv = [t \in Threads |-> 0]
    /\ tmo = [t \in Threads |-> NoTimeout]
    /\ semret = [t \in Threads |-> "none"]
    /\ gui = GuiZero
    /\ OrchZero

\* two contexts call the scanner
InitScanner ==
    /\ InitCommon
    /\ store = [wifi_ssid |-> NoKey, wifi_psk |-> NoKey]
    /\ nlimit = RaceNotif
    /\ pc = [t \in Threads |-> IF t \in {"main", "shell"} THEN "drv" ELSE "off"]

\* one context calls the scanner, the platform reports more networks than fit
InitScannerFull ==
    /\ InitCommon
    /\ store = [wifi_ssid |-> NoKey, wifi_psk |-> NoKey]
    /\ nlimit = MaxNotif
    /\ pc = [t \in Threads |-> IF t = "main" THEN "drv" ELSE "off"]

NextScanner ==
    \/ \E t \in Threads : DrvInit(t)
    \/ \E t \in Threads : DrvScan(t)
    \/ \E t \in Threads : DrvClear(t)
    \/ \E t \in Threads : DrvReturn(t)
    \/ \E t \in Threads : ScannerInit1(t)
    \/ \E t \in Threads : ScannerInit2(t)
    \/ \E t \in Threads : ScanCheck(t)
    \/ \E t \in Threads : ScanClear(t)
    \/ \E t \in Threads : ScanRequest(t)
    \/ \E t \in Threads : ScanTake(t)
    \/ \E t \in Threads : ScanTimeout(t)
    \/ \E t \in Threads : ScanWoken(t)
    \/ PlatformScanResult
    \/ PlatformScanDone

SpecScanner == InitScanner /\ [][NextScanner]_vars

SpecScannerFull == InitScannerFull /\ [][NextScanner]_vars

(***************************************************************************)
(* The program from power-on.                                              *)
(***************************************************************************)
Init ==
    /\ InitCommon
    /\ store \in StoredAtBoot
    /\ nlimit = RaceNotif
    /\ pc = [t \in Threads |-> IF t = "main" THEN "boot" ELSE "off"]

\* the steps of the server thread once it has taken a request: the credentials
\* callback, closing the connection, leaving the loop
ServerFinish ==
    \/ CredsStore("http")
    \/ CredsHttpStop("http")
    \/ HttpStopCheck("http")
    \/ HttpStopClose("http")
    \/ HttpStopJoin("http")
    \/ CredsApStop("http")
    \/ CredsSleep("http")
    \/ ConnectStoredRequest("http")
    \/ ConnectStoredTake("http")
    \/ ConnectStoredTimeout("http")
    \/ ConnectStoredWoken("http")
    \/ CredsReturn("http")
    \/ HandleClientCallback
    \/ HandleClientResults
    \/ HandleClientPage
    \/ HandleClientClose
    \/ HttpThreadLoop
    \/ HttpThreadExit

\* the steps of the server thread
HttpThreadRun ==
    \/ HttpThreadSocket
    \/ HttpThreadBind
    \/ HttpThreadListen
    \/ HttpThreadAccept
    \/ HandleClient
    \/ ServerFinish

\* the steps of main
MainRun ==
    \/ MainBoot
    \/ MainAutoConnect
    \/ MainAutoResult
    \/ ProvBegin("main")
    \/ ProvScan("main")
    \/ ProvServers("main")
    \/ ProvHttpStart("main")
    \/ ProvFlag("main")
    \/ StartHttpBegin("main")
    \/ StartHttpWake("main")
    \/ StartHttpServer("main")
    \/ ConnectStoredRequest("main")
    \/ ConnectStoredTake("main")
    \/ ConnectStoredTimeout("main")
    \/ ConnectStoredWoken("main")
    \/ ScannerInit1("main")
    \/ ScannerInit2("main")
    \/ ScanCheck("main")
    \/ ScanClear("main")
    \/ ScanRequest("main")
    \/ ScanTake("main")
    \/ ScanTimeout("main")
    \/ ScanWoken("main")

Next ==
    \/ MainRun
    \/ HttpThreadRun
    \/ PlatformScanResult
    \/ PlatformScanDone
    \/ PlatformApResult
    \/ PlatformConnectResult

Spec == Init /\ [][Next]_vars

\* the server thread is scheduled while it serves a request and leaves its loop,
\* its bounded waits end, and the platform answers the AP requests it accepted
SpecFair == Spec /\ WF_vars(ServerFinish) /\ WF_vars(PlatformApResult)

(***************************************************************************)
(* Persisting credentials and reloading them: the device boots with some   *)
(* store content, credentials are handed to provisioning_creds_received,   *)
(* the device is power-cycled and boots again.                             *)
(***************************************************************************)
Ssid32 == [i \in 1..WIFI_SSID_MAX |-> "s"]
Psk64 == [i \in 1..WIFI_PSK_MAX |-> "p"]

\* the credentials handed over: SSIDs of 1..32 bytes, passwords of 0..64 bytes
CredInputs ==
    {[ssid |-> s, password |-> p] : s \in {<<"A">>, Home, Ssid32},
                                   p \in {Empty, <<"x">>, MyPassword, Psk64}}

\* the device has been power-cycled
Rebooted == mlog # <<>> /\ mlog[1] = "reboot"

\* server->creds_cb(ssid, password, ...) with credentials c
StoreSubmit ==
    /\ pc["main"] \in {"m_auto", "spm_begin"}
    /\ pc["http"] = "off"
    /\ ~Rebooted
    /\ \E c \in CredInputs : args' = [args EXCEPT !["http"] = c]
    /\ pc' = [pc EXCEPT !["http"] = "pcr_store"]
    /\ stack' = [stack EXCEPT !["http"] = <<"hc_close">>]
    /\ UNCHANGED <<scannerVars, nlimit, has_iface, app, wifi_connected_sem, store,
                   http_srv, ap_prov, ap_g, plat, net, hc, mlog, cblog, rv>>

\* power cycle: RAM, threads, sockets and pending platform requests are lost, the
\* settings storage is kept; args keeps the credentials that were submitted before
\* the power cycle, the reload is compared with them
PowerCycle ==
    /\ pc["http"] = "pcr_http_stop"
    /\ ~Rebooted
    /\ scanner' = ScannerZero
    /\ jobs' = [live |-> {}, stale |-> 0]
    /\ narrived' = 0
    /\ own_done' = [t \in Threads |-> NoDone]
    /\ any_done' = [t \in Threads |-> FALSE]
    /\ stack' = [t \in Threads |-> <<>>]
    /\ rv' = [t \in Threads |-> 0]
    /\ tmo' = [t \in Threads |-> NoTimeout]
    /\ semret' = [t \in Threads |-> "none"]
    /\ app' = AppZero
    /\ wifi_connected_sem' = [count |-> 0, waiters |-> {}]
    /\ http_srv' = HttpZero
    /\ ap_prov' = ApZero
    /\ ap_g' = ApGZero
    /\ plat' = PlatZero
    /\ net' = NetZero
    /\ hc' = HcZero
    /\ mlog' = <<"reboot">>
    /\ cblog' = <<>>
    /\ pc' = [t \in Threads |-> IF t = "main" THEN "boot" ELSE "off"]
    /\ UNCHANGED <<store, nlimit, has_iface, gui, args>>

NextStore ==
    \/ MainBoot
    \/ StoreSubmit
    \/ CredsStore("http")
    \/ PowerCycle

SpecStore == Init /\ [][NextStore]_vars

(***************************************************************************)
(* main.c: the shell commands "wifi set_ssid" and "wifi set_password". The *)
(* command table is static, so the operator can type them at any time.     *)
(***************************************************************************)
Ssid33 == Ssid32 \o <<"s">>

Psk65 == Psk64 \o <<"p">>

ShellSsids == {Empty, Ssid32, Ssid33}

ShellPasswords == {Empty, Psk64, Psk65}

\* the operator enters a command with its argument
ShellCommand ==
    /\ pc["shell"] = "off"
    /\ \/ \E s \in ShellSsids :
             /\ args' = [args EXCEPT !["shell"] = [ssid |-> s, password |-> Empty]]
             /\ Goto("shell", "cmd_wifi_set_ssid")
       \/ \E p \in ShellPasswords :
             /\ args' = [args EXCEPT !["shell"] = [ssid |-> Empty, password |-> p]]
             /\ Goto("shell", "cmd_wifi_set_password")
    /\ UNCHANGED <<scannerVars, nlimit, has_iface, app, wifi_connected_sem, store,
                   http_srv, ap_prov, ap_g, plat, net, hc, mlog, cblog>>

\* cmd_wifi_set_ssid: the length check, strncpy, settings_save
cmd_wifi_set_ssid ==
    /\ pc["shell"] = "cmd_wifi_set_ssid"
    /\ IF Len(args["shell"].ssid) > WIFI_SSID_MAX
       THEN /\ rv' = [rv EXCEPT !["shell"] = -EINVAL]
            /\ UNCHANGED <<app, store>>
       ELSE LET a == [app EXCEPT !.wifi_ssid = StrNCpy(args["shell"].ssid, WIFI_SSID_MAX)]
            IN /\ app' = a
               /\ store' = settings_save(store, a)
               /\ rv' = [rv EXCEPT !["shell"] = 0]
    /\ pc' = [pc EXCEPT !["shell"] = "off"]
    /\ UNCHANGED <<scannerVars, nlimit, has_iface, wifi_connected_sem, http_srv,
                   ap_prov, ap_g, plat, net, hc, args, mlog, cblog, stack>>

\* cmd_wifi_set_password: the length check, strncpy, the "set" flag, settings_save
cmd_wifi_set_password ==
    /\ pc["shell"] = "cmd_wifi_set_password"
    /\ IF Len(args["shell"].password) > WIFI_PSK_MAX
       THEN /\ rv' = [rv EXCEPT !["shell"] = -EINVAL]
            /\ UNCHANGED <<app, store>>
       ELSE LET a == [app EXCEPT !.wifi_psk = StrNCpy(args["shell"].password, WIFI_PSK_MAX),
                                 !.wifi_credentials_set = TRUE]
            IN /\ app' = a
               /\ store' = settings_save(store, a)
               /\ rv' = [rv EXCEPT !["shell"] = 0]
    /\ pc' = [pc EXCEPT !["shell"] = "off"]
    /\ UNCHANGED <<scannerVars, nlimit, has_iface, wifi_connected_sem, http_srv,
                   ap_prov, ap_g, plat, net, hc, args, mlog, cblog, stack>>

ShellRun ==
    \/ ShellCommand
    \/ cmd_wifi_set_ssid
    \/ cmd_wifi_set_password

\* the device is configured over the shell: the server thread starts and
\* waits in accept(), no client connects
NextShell ==
    \/ MainRun
    \/ ShellRun
    \/ HttpThreadSocket
    \/ HttpThreadBind
    \/ HttpThreadListen
    \/ HttpThreadLoop
    \/ PlatformScanResult
    \/ PlatformScanDone
    \/ PlatformApResult
    \/ PlatformConnectResult

SpecShell == Init /\ [][NextShell]_vars

(***************************************************************************)
(* wifi_shell_commands.c: the shell command "wifi_ext scan", typed while   *)
(* main starts up and the server thread serves the configuration page.     *)
(***************************************************************************)
\* main has passed wifi_shell_commands_init(&scanner, &ap_prov): g_scanner is set
ShellHasScanner == pc["main"] \notin {"boot", "m_exit"}

\* cmd_wifi_scan: refused without a scanner, else wifi_scanner_scan(g_scanner, 10000)
cmd_wifi_scan ==
    /\ pc["shell"] = "off"
    /\ IF ~ShellHasScanner
       THEN /\ rv' = [rv EXCEPT !["shell"] = -ENOTSUP]
            /\ UNCHANGED <<pc, stack, tmo, own_done>>
       ELSE /\ tmo' = [tmo EXCEPT !["shell"] = [arg |-> CALLER_SCAN_TIMEOUT_MS,
                                                eff |-> CALLER_SCAN_TIMEOUT_MS]]
            /\ own_done' = [own_done EXCEPT !["shell"] = NoDone]
            /\ Call("shell", "scan_check", "cmd_wifi_scan_ret")
    /\ UNCHANGED <<gui, scanner, jobs, narrived, any_done, semret, nlimit, has_iface, app,
                   wifi_connected_sem, store, http_srv, ap_prov, ap_g, plat, net, hc, args,
                   mlog, cblog>>

\* wifi_scanner_scan has returned: the error or the list is printed, the buffer
\* is only read
cmd_wifi_scan_return ==
    /\ pc["shell"] = "cmd_wifi_scan_ret"
    /\ pc' = [pc EXCEPT !["shell"] = "off"]
    /\ tmo' = [tmo EXCEPT !["shell"] = NoTimeout]
    /\ own_done' = [own_done EXCEPT !["shell"] = NoDone]
    /\ any_done' = [any_done EXCEPT !["shell"] = FALSE]
    /\ semret' = [semret EXCEPT !["shell"] = "none"]
    /\ UNCHANGED <<gui, scanner, jobs, narrived, stack, rv, nlimit, has_iface, orchVars>>

ShellScanRun ==
    \/ cmd_wifi_scan
    \/ cmd_wifi_scan_return
    \/ ScanCheck("shell")
    \/ ScanClear("shell")
    \/ ScanRequest("shell")
    \/ ScanTake("shell")
    \/ ScanTimeout("shell")
    \/ ScanWoken("shell")

\* a client connects and asks for the configuration page
PageAccept == HttpThreadAccept /\ net'.request = ReqGet

\* the device boots without stored credentials and enters provisioning
InitPage ==
    /\ Init
    /\ has_iface
    /\ store = [wifi_ssid |-> NoKey, wifi_psk |-> NoKey]

NextPage ==
    \/ MainBoot
    \/ ProvBegin("main")
    \/ ScannerInit1("main")
    \/ ScannerInit2("main")
    \/ ProvScan("main")
    \/ ScanCheck("main")
    \/ ScanClear("main")
    \/ ScanRequest("main")
    \/ ScanTake("main")
    \/ ScanTimeout("main")
    \/ ScanWoken("main")
    \/ ProvServers("main")
    \/ ProvHttpStart("main")
    \/ ProvFlag("main")
    \/ ShellScanRun
    \/ HttpThreadSocket
    \/ HttpThreadBind
    \/ HttpThreadListen
    \/ HttpThreadLoop
    \/ PageAccept
    \/ HandleClient
    \/ HandleClientResults
    \/ HandleClientPage
    \/ HandleClientClose
    \/ PlatformScanResult
    \/ PlatformScanDone

SpecPage == InitPage /\ [][NextPage]_vars

(***************************************************************************)
(* The two reset commands, "wifi_ext reset" (wifi_shell_commands.c) and    *)
(* "wifi reset" (main.c), and "kernel reboot".                             *)
(***************************************************************************)
\* the operator enters one of the reset commands
ResetCommand ==
    /\ pc["shell"] = "off"
    /\ \/ Goto("shell", "cmd_wifi_ext_reset")
       \/ Goto("shell", "cmd_wifi_reset")
    /\ UNCHANGED <<scannerVars, envVars>>

\* wifi_shell_commands.c, cmd_wifi_reset: two lines are printed
cmd_wifi_ext_reset ==
    /\ pc["shell"] = "cmd_wifi_ext_reset"
    /\ rv' = [rv EXCEPT !["shell"] = 0]
    /\ pc' = [pc EXCEPT !["shell"] = "off"]
    /\ UNCHANGED <<scannerVars, envVars, stack>>

\* settings_delete(name)
settings_delete(st, name) == [st EXCEPT ![name] = NoKey]

\* main.c, cmd_wifi_reset: memset of both buffers, the flag, settings_delete of both
\* keys, settings_save
cmd_wifi_reset ==
    /\ pc["shell"] = "cmd_wifi_reset"
    /\ LET a == [app EXCEPT !.wifi_ssid = Empty, !.wifi_psk = Empty,
                            !.wifi_credentials_set = FALSE]
           deleted == settings_delete(settings_delete(store, "wifi_ssid"), "wifi_psk")
       IN /\ app' = a
          /\ store' = settings_save(deleted, a)
    /\ rv' = [rv EXCEPT !["shell"] = 0]
    /\ pc' = [pc EXCEPT !["shell"] = "off"]
    /\ UNCHANGED <<scannerVars, nlimit, has_iface, wifi_connected_sem, http_srv,
                   ap_prov, ap_g, plat, net, hc, args, mlog, cblog, stack>>

\* kernel reboot: RAM, threads, sockets and pending platform requests are lost,
\* the settings storage is kept
KernelReboot ==
    /\ pc["shell"] = "off"
    /\ ~Rebooted
    /\ scanner' = ScannerZero
    /\ jobs' = [live |-> {}, stale |-> 0]
    /\ narrived' = 0
    /\ own_done' = [t \in Threads |-> NoDone]
    /\ any_done' = [t \in Threads |-> FALSE]
    /\ stack' = [t \in Threads |-> <<>>]
    /\ rv' = [t \in Threads |-> 0]
    /\ tmo' = [t \in Threads |-> NoTimeout]
    /\ semret' = [t \in Threads |-> "none"]
    /\ app' = AppZero
    /\ wifi_connected_sem' = [count |-> 0, waiters |-> {}]
    /\ http_srv' = HttpZero
    /\ ap_prov' = ApZero
    /\ ap_g' = ApGZero
    /\ plat' = PlatZero
    /\ net' = NetZero
    /\ hc' = HcZero
    /\ args' = [t \in Threads |-> [ssid |-> Empty, password |-> Empty]]
    /\ mlog' = <<"reboot">>
    /\ cblog' = <<>>
    /\ pc' = [t \in Threads |-> IF t = "main" THEN "boot" ELSE "off"]
    /\ UNCHANGED <<store, nlimit, has_iface, gui>>

\* boot, a reset command, reboot; no client connects
NextReset ==
    \/ MainRun
    \/ ResetCommand
    \/ cmd_wifi_ext_reset
    \/ cmd_wifi_reset
    \/ KernelReboot
    \/ HttpThreadSocket
    \/ HttpThreadBind
    \/ HttpThreadListen
    \/ HttpThreadLoop
    \/ PlatformScanResult
    \/ PlatformScanDone
    \/ PlatformApResult
    \/ PlatformConnectResult

SpecReset == Init /\ [][NextReset]_vars

(***************************************************************************)
(* main.c: the shell command "wifi connect".                               *)
(***************************************************************************)
\* station-connect requests issued in one run
MaxConnects == 3

\* the operator enters "wifi connect": cmd_wifi_connect calls wifi_connect_stored
CmdWifiConnect ==
    /\ pc["shell"] = "off"
    /\ Len(plat.conn_ssids) < MaxConnects
    /\ Call("shell", "wcs_request", "cwc_result")
    /\ UNCHANGED <<scannerVars, envVars>>

\* cmd_wifi_connect: rc is returned if not 0, else start_http_server is called
CmdWifiConnectResult ==
    /\ pc["shell"] = "cwc_result"
    /\ IF rv["shell"] # 0
       THEN Goto("shell", "off")
       ELSE Call("shell", "shs_begin", "cwc_done")
    /\ UNCHANGED <<scannerVars, envVars>>

\* cmd_wifi_connect returns 0
CmdWifiConnectDone ==
    /\ pc["shell"] = "cwc_done"
    /\ pc' = [pc EXCEPT !["shell"] = "off"]
    /\ rv' = [rv EXCEPT !["shell"] = 0]
    /\ UNCHANGED <<scannerVars, envVars, stack>>

\* the station loses its connection: the platform delivers a disconnect result
PlatformDisconnect ==
    /\ Registered("wifi_cb")
    /\ app.wifi_connected
    /\ wifi_mgmt_event_handler("DISCONNECT_RESULT", 0)
    /\ UNCHANGED <<scannerVars, nlimit, has_iface, store, http_srv, ap_prov, ap_g,
                   plat, net, hc, args, mlog, cblog, threadVars>>

ShellConnectRun ==
    \/ CmdWifiConnect
    \/ CmdWifiConnectResult
    \/ CmdWifiConnectDone
    \/ ConnectStoredRequest("shell")
    \/ ConnectStoredTake("shell")
    \/ ConnectStoredTimeout("shell")
    \/ ConnectStoredWoken("shell")
    \/ StartHttpBegin("shell")
    \/ StartHttpWake("shell")
    \/ StartHttpServer("shell")
    \/ ScannerInit1("shell")
    \/ ScannerInit2("shell")

\* power-on of a device that holds no credentials or both of them
InitConn ==
    /\ InitCommon
    /\ store \in { [wifi_ssid |-> NoKey, wifi_psk |-> NoKey],
                   [wifi_ssid |-> Key(Old), wifi_psk |-> Key(OldPass)] }
    /\ nlimit = RaceNotif
    /\ pc = [t \in Threads |-> IF t = "main" THEN "boot" ELSE "off"]

\* boot and, at any time, "wifi connect" any number of times; no client connects
NextConn ==
    \/ MainRun
    \/ ShellConnectRun
    \/ HttpThreadSocket
    \/ HttpThreadBind
    \/ HttpThreadListen
    \/ HttpThreadLoop
    \/ PlatformScanResult
    \/ PlatformScanDone
    \/ PlatformApResult
    \/ PlatformConnectResult
    \/ PlatformDisconnect

SpecConn == InitConn /\ [][NextConn]_vars

(***************************************************************************)
(* Callers of the access-point controller: any sequence of init / start /  *)
(* stop calls from the two contexts that hold a reference to it (main      *)
(* through start_provisioning_mode, the shell through "wifi_ext provision" *)
(* and "wifi_ext provision_stop").                                         *)
(***************************************************************************)
\* AP requests the platform has accepted and not yet answered
MaxApPending == 2

\* runs of the credentials callback
MaxSetCredentials == 1

ApCallers == {"main", "shell"}

\* the callback each caller passes to start
ApCallback(t) == IF t = "main" THEN "provisioning_creds_received" ELSE "none"

DrvApInit(t) ==
    /\ pc[t] = "drv"
    /\ ap_prov' = wifi_ap_provisioning_init
    /\ ap_g' = [ap_g EXCEPT !.g_ap_instance = TRUE]
    /\ plat' = [plat EXCEPT !.callbacks = ApInitCallbacks(@)]
    /\ pc' = [pc EXCEPT ![t] = "drv_ap_init"]
    /\ rv' = [rv EXCEPT ![t] = 0]
    /\ UNCHANGED <<scannerVars, nlimit, has_iface, app, wifi_connected_sem, store,
                   http_srv, net, hc, args, mlog, cblog, stack>>

DrvApStart(t) ==
    /\ pc[t] = "drv"
    /\ Len(plat.ap_pending) < MaxApPending
    /\ \E ret \in ApEnableReturns :
          LET r == wifi_ap_provisioning_start(ap_prov, ap_g, plat, ApCallback(t), ret)
          IN /\ ap_prov' = r.ap
             /\ ap_g' = r.g
             /\ plat' = r.plat
             /\ rv' = [rv EXCEPT ![t] = r.rc]
    /\ pc' = [pc EXCEPT ![t] = "drv_ap_start"]
    /\ UNCHANGED <<scannerVars, nlimit, has_iface, app, wifi_connected_sem, store,
                   http_srv, net, hc, args, mlog, cblog, stack>>

DrvApStop(t) ==
    /\ pc[t] = "drv"
    /\ Len(plat.ap_pending) < MaxApPending
    /\ \E ret \in ApDisableReturns :
          LET r == wifi_ap_provisioning_stop(ap_prov, plat, ret)
          IN /\ plat' = r.plat
             /\ rv' = [rv EXCEPT ![t] = r.rc]
    /\ pc' = [pc EXCEPT ![t] = "drv_ap_stop"]
    /\ UNCHANGED <<scannerVars, nlimit, has_iface, app, wifi_connected_sem, store,
                   http_srv, ap_prov, ap_g, net, hc, args, mlog, cblog, stack>>

\* runs of the credentials callback begun so far
CallbacksBegun ==
    Cardinality({i \in DOMAIN cblog : cblog[i].ev = "persist"})
        + Cardinality({u \in Threads : pc[u] = "pcr_store"})

\* wifi_ap_provisioning_set_credentials(ssid, password): ssid may be NULL, and
\* password NULL or empty; the credentials are kept in the controller, then the
\* registered callback runs in the caller's thread
DrvApSetCredentials(t) ==
    /\ pc[t] = "drv"
    /\ CallbacksBegun < MaxSetCredentials
    /\ \E given \in BOOLEAN, ssid \in {Ssid33}, password \in {Empty, Psk64} :
          IF ~ap_g.g_ap_instance \/ ~given
          THEN /\ UNCHANGED <<ap_prov, args, stack>>
               /\ pc' = [pc EXCEPT ![t] = "drv_ap_setcreds"]
          ELSE LET a == [ap_prov EXCEPT
                           !.new_ssid = StrNCpy(ssid, WIFI_SSID_MAX),
                           !.new_password = StrNCpy(password, WIFI_PSK_MAX),
                           !.credentials_received = TRUE]
               IN /\ ap_prov' = a
                  /\ IF ap_g.g_creds_callback # "none"
                     THEN /\ args' = [args EXCEPT ![t] = [ssid |-> a.new_ssid,
                                                          password |-> a.new_password]]
                          /\ pc' = [pc EXCEPT ![t] = "pcr_store"]
                          /\ stack' = [stack EXCEPT ![t] = <<"drv_ap_setcreds">> \o @]
                     ELSE /\ UNCHANGED <<args, stack>>
                          /\ pc' = [pc EXCEPT ![t] = "drv_ap_setcreds"]
    /\ UNCHANGED <<scannerVars, nlimit, has_iface, app, wifi_connected_sem, store,
                   http_srv, ap_g, plat, net, hc, mlog, cblog, rv>>

\* the caller has looked at the result of its call
DrvApReturn(t) ==
    /\ pc[t] \in {"drv_ap_init", "drv_ap_start", "drv_ap_stop", "drv_ap_setcreds"}
    /\ pc' = [pc EXCEPT ![t] = "drv"]
    /\ rv' = [rv EXCEPT ![t] = 0]
    /\ UNCHANGED <<scannerVars, envVars, stack>>

InitAp ==
    /\ InitCommon
    /\ store = [wifi_ssid |-> NoKey, wifi_psk |-> NoKey]
    /\ nlimit = RaceNotif
    /\ pc = [t \in Threads |-> IF t \in ApCallers THEN "drv" ELSE "off"]

NextAp ==
    \/ \E t \in ApCallers : DrvApInit(t)
    \/ \E t \in ApCallers : DrvApStart(t)
    \/ \E t \in ApCallers : DrvApStop(t)
    \/ \E t \in ApCallers : DrvApSetCredentials(t)
    \/ \E t \in ApCallers : DrvApReturn(t)
    \/ \E t \in ApCallers : CredsStore(t)
    \/ \E t \in ApCallers : CredsHttpStop(t)
    \/ \E t \in ApCallers : HttpStopCheck(t)
    \/ \E t \in ApCallers : CredsApStop(t)
    \/ \E t \in ApCallers : CredsSleep(t)
    \/ \E t \in ApCallers : ConnectStoredRequest(t)
    \/ \E t \in ApCallers : ConnectStoredTake(t)
    \/ \E t \in ApCallers : ConnectStoredTimeout(t)
    \/ \E t \in ApCallers : ConnectStoredWoken(t)
    \/ \E t \in ApCallers : CredsReturn(t)
    \/ PlatformApResult
    \/ PlatformConnectResult

SpecAp == InitAp /\ [][NextAp]_vars

(***************************************************************************)
(* A caller of the configuration server: any sequence of init / start /    *)
(* stop calls, with clients connecting while the server listens.           *)
(***************************************************************************)
DrvHttpInit(t) ==
    /\ pc[t] = "drv"
    /\ http_srv' = http_server_init
    /\ pc' = [pc EXCEPT ![t] = "drv_http_init", !["http"] = ServerThreadZeroed]
    /\ rv' = [rv EXCEPT ![t] = 0]
    /\ UNCHANGED <<scannerVars, nlimit, has_iface, app, wifi_connected_sem, store,
                   ap_prov, ap_g, plat, net, hc, args, mlog, cblog, stack>>

DrvHttpStart(t) ==
    /\ pc[t] = "drv"
    /\ HttpServerStart(t, "none", "drv_http_start")
    /\ UNCHANGED <<scannerVars, nlimit, has_iface, app, wifi_connected_sem, store,
                   ap_prov, ap_g, plat, net, hc, args, mlog, cblog, semret>>

DrvHttpStop(t) ==
    /\ pc[t] = "drv"
    /\ Call(t, "hs_check", "drv_http_stop")
    /\ UNCHANGED <<scannerVars, envVars>>

\* the caller has looked at the result of its call
DrvHttpReturn(t) ==
    /\ pc[t] \in {"drv_http_init", "drv_http_start", "drv_http_stop"}
    /\ pc' = [pc EXCEPT ![t] = "drv"]
    /\ rv' = [rv EXCEPT ![t] = 0]
    /\ UNCHANGED <<scannerVars, envVars, stack>>

InitHttp ==
    /\ InitCommon
    /\ store = [wifi_ssid |-> NoKey, wifi_psk |-> NoKey]
    /\ nlimit = RaceNotif
    /\ pc = [t \in Threads |-> IF t = "main" THEN "drv" ELSE "off"]

NextHttp ==
    \/ DrvHttpInit("main")
    \/ DrvHttpStart("main")
    \/ DrvHttpStop("main")
    \/ DrvHttpReturn("main")
    \/ HttpStopCheck("main")
    \/ HttpStopClose("main")
    \/ HttpStopJoin("main")
    \/ HttpThreadSocket
    \/ HttpThreadBind
    \/ HttpThreadListen
    \/ HttpThreadLoop
    \/ HttpThreadAccept
    \/ HttpThreadAcceptLost
    \/ HandleClient
    \/ HandleClientCallback
    \/ HandleClientResults
    \/ HandleClientPage
    \/ HandleClientClose
    \/ HttpThreadExit

SpecHttp == InitHttp /\ [][NextHttp]_vars

\* accept() returns once its socket has been closed or a client has connected,
\* and the server thread is scheduled when it leaves its loop
ServerLeaves ==
    \/ HttpThreadAccept
    \/ HttpThreadExit

SpecHttpFair == SpecHttp /\ WF_vars(ServerLeaves)

(***************************************************************************)
(* A client posts the form: handle_client with a request whose body is      *)
(* ssid=<s>&password=<p>.                                                  *)
(***************************************************************************)
TestNet == <<"T", "e", "s", "t", "N", "e", "t">>
Secret1 == <<"S", "e", "c", "r", "e", "t", "1">>
MyPlusHome == <<"M", "y", "+", "H", "o", "m", "e">>
PasswordEqX == <<"p", "a", "s", "s", "w", "o", "r", "d", "=", "x">>

\* field values a client sends: none of them contains &
ParseSsids ==
    {Empty, TestNet, MyPlusHome, <<"a", "+", "+", "b">>, <<"%", "4", "1">>, Ssid32, Ssid33, PasswordEqX}

ParsePasswords ==
    {Empty, Secret1, <<"a", "+", "b">>, <<"%", "2", "0">>, <<"s", "s", "i", "d", "=", "z">>, Psk64, Psk65}

\* the request with the form fields s and p
PostRequest(s, p) == PostConnect \o CRLFCRLF \o SsidKey \o s \o Amp \o PasswordKey \o p

\* the server thread has read the request of a client and enters handle_client
InitParse ==
    /\ scanner = ScannerZero
    /\ jobs = [live |-> {}, stale |-> 0]
    /\ narrived = 0
    /\ nlimit = RaceNotif
    /\ has_iface \in BOOLEAN
    /\ own_done = [t \in Threads |-> NoDone]
    /\ any_done = [t \in Threads |-> FALSE]
    /\ stack = [t \in Threads |-> <<>>]
    /\ rv = [t \in Threads |-> 0]
    /\ tmo = [t \in Threads |-> NoTimeout]
    /\ semret = [t \in Threads |-> "none"]
    /\ app = AppZero
    /\ wifi_connected_sem = [count |-> 0, waiters |-> {}]
    /\ store = [wifi_ssid |-> NoKey, wifi_psk |-> NoKey]
    /\ http_srv = [http_server_init EXCEPT !.creds_cb = "provisioning_creds_received",
                                           !.running = TRUE, !.state = "RUNNING",
                                           !.listen_sock = 3]
    /\ ap_prov = ApZero
    /\ ap_g = ApGZero
    /\ plat = PlatZero
    /\ \E s \in ParseSsids, p \in ParsePasswords :
          net = [NetZero EXCEPT !.socks[3] = "listening", !.accept_fd = 3,
                                !.socks[4] = "client", !.client_fd = 4,
                                !.client = "open", !.request = PostRequest(s, p)]
    /\ hc = HcZero
    /\ args = [t \in Threads |-> [ssid |-> Empty, password |-> Empty]]
    /\ mlog = <<>>
    /\ cblog = <<>>
    /\ gui = GuiZero
    /\ pc = [t \in Threads |-> IF t = "http" THEN "hc_handle" ELSE "off"]

NextParse ==
    \/ HandleClient
    \/ HandleClientCallback

SpecParse == InitParse /\ [][NextParse]_vars

(***************************************************************************)
(* wifi_config_gui.c: the alternate-input state machine.  It reads the     *)
(* scanner's result buffer through wifi_scanner_get_results; the display   *)
(* operations change no state of the component.                            *)
(***************************************************************************)
\* highest selection index the caller drives the component to
MaxSelect == 33
\* characters the caller types into one password
MaxTyped == 3

\* the buffer entry i as the selection list shows it: its SSID and its security
Digit(d) == <<"0", "1", "2", "3", "4", "5", "6", "7", "8", "9">>[d + 1]
NetSsid(i) == <<"n", Digit(i \div 10), Digit(i % 10)>>
NetSecurity(i) == IF i % 2 = 1 THEN "NONE" ELSE "PSK"

GuiInputs == {"UP", "DOWN", "SELECT", "BACK", "CHAR"}
\* the data byte of an input; NUL is the byte 0
NUL == "NUL"
GuiData == {"a", "b", NUL}
\* result counts of the buffer the component is started on
GuiCounts == 0 .. WIFI_SCANNER_MAX_RESULTS

\* gui->creds_cb(ssid, password, user_data), if a callback is registered
GuiSubmit(g) ==
    IF g.creds_cb # "none"
    THEN [g EXCEPT !.calls = Append(@, [ssid |-> g.selected_ssid,
                                        password |-> g.entered_password])]
    ELSE g

\* what wifi_gui_refresh shows for the state of g
GuiContent(g, res) ==
    CASE g.state = "SCANNING" -> <<"Scanning...">>
      [] g.state = "NETWORK_LIST" ->
           IF res.count > 0 THEN <<"show_networks">> ELSE <<"No networks found">>
      [] g.state = "ENTER_PASSWORD" -> <<"show_password_entry">>
      [] g.state = "CONNECTING" -> <<"Connecting...">>
      [] g.state = "SUCCESS" -> <<"Connected!">>
      [] g.state = "FAILED" -> <<"Connection failed">>
      [] OTHER -> <<>>

\* wifi_gui_refresh: clear, the content of the state, update
wifi_gui_refresh(g, res) ==
    [g EXCEPT !.display = @ \o <<"clear">> \o GuiContent(g, res) \o <<"update">>]

\* NetworkList, Up
GuiListUp(g, res) ==
    IF g.selected_network > 0
    THEN wifi_gui_refresh([g EXCEPT !.selected_network = @ - 1], res)
    ELSE g

\* selected_network < count - 1, both size_t: with count = 0 the right-hand side is
\* SIZE_MAX, above every index the component is driven to (MaxSelect)
GuiBelowLast(sel, count) == IF count = 0 THEN TRUE ELSE sel < count - 1

\* NetworkList, Down
GuiListDown(g, res) ==
    IF GuiBelowLast(g.selected_network, res.count)
    THEN wifi_gui_refresh([g EXCEPT !.selected_network = @ + 1], res)
    ELSE g

\* faulty variant: an open network is treated like a secured one
GuiListSelect_AskPassword(g, res) ==
    IF g.selected_network < res.count
    THEN wifi_gui_refresh(
           [g EXCEPT !.selected_ssid = NetSsid(res.results[g.selected_network + 1]),
                     !.state = "ENTER_PASSWORD",
                     !.entered_password = Empty,
                     !.password_cursor = 0], res)
    ELSE g

\* NetworkList, Select
GuiListSelect(g, res) ==
    IF g.selected_network < res.count
    THEN LET entry == res.results[g.selected_network + 1]
             named == [g EXCEPT !.selected_ssid = NetSsid(entry)]
         IN wifi_gui_refresh(
              IF NetSecurity(entry) = "NONE"
              THEN [GuiSubmit([named EXCEPT !.entered_password = Empty])
                      EXCEPT !.state = "CONNECTING"]
              ELSE [named EXCEPT !.state = "ENTER_PASSWORD",
                                 !.entered_password = Empty,
                                 !.password_cursor = 0], res)
    ELSE g

\* faulty variant: a character is appended whatever the length
GuiPasswordChar_NoLimit(g, data, res) ==
    wifi_gui_refresh([g EXCEPT !.entered_password = Append(@, data)], res)

\* EnterPassword, Char
GuiPasswordChar(g, data, res) ==
    IF Len(g.entered_password) < WIFI_PSK_MAX
    THEN wifi_gui_refresh([g EXCEPT !.entered_password = Append(@, data)], res)
    ELSE g

\* faulty variant: going back to the list forgets the selection
GuiPasswordBack_Forget(g, res) ==
    wifi_gui_refresh(
      IF Len(g.entered_password) > 0
      THEN [g EXCEPT !.entered_password = SubSeq(@, 1, Len(@) - 1)]
      ELSE [g EXCEPT !.state = "NETWORK_LIST", !.selected_network = 0,
                     !.selected_ssid = Empty], res)

\* EnterPassword, Back
GuiPasswordBack(g, res) ==
    wifi_gui_refresh(
      IF Len(g.entered_password) > 0
      THEN [g EXCEPT !.entered_password = SubSeq(@, 1, Len(@) - 1)]
      ELSE [g EXCEPT !.state = "NETWORK_LIST"], res)

\* faulty variant: the credentials are handed over twice
GuiPasswordSelect_Twice(g, res) ==
    wifi_gui_refresh([GuiSubmit(GuiSubmit(g)) EXCEPT !.state = "CONNECTING"], res)

\* EnterPassword, Select
GuiPasswordSelect(g, res) ==
    wifi_gui_refresh([GuiSubmit(g) EXCEPT !.state = "CONNECTING"], res)

wifi_gui_handle_input(g, input, data, res) ==
    CASE g.state = "NETWORK_LIST" ->
           (CASE input = "UP" -> GuiListUp(g, res)
              [] input = "DOWN" -> GuiListDown(g, res)
              [] input = "SELECT" -> GuiListSelect(g, res)
              [] OTHER -> g)
      [] g.state = "ENTER_PASSWORD" ->
           (CASE input = "CHAR" /\ data # NUL -> GuiPasswordChar(g, data, res)
              [] input = "BACK" -> GuiPasswordBack(g, res)
              [] input = "SELECT" -> GuiPasswordSelect(g, res)
              [] OTHER -> g)
      [] OTHER -> g

\* wifi_gui_stop: state Idle, clear, update
wifi_gui_stop(g) == [g EXCEPT !.state = "IDLE", !.display = <<"clear", "update">>]

\* wifi_gui_handle_input(gui, input, data)
GuiHandle(input, data) ==
    /\ pc["main"] = "gui"
    /\ gui' = [wifi_gui_handle_input([gui EXCEPT !.display = <<>>], input, data,
                                      wifi_scanner_get_results)
                 EXCEPT !.input = input,
                        !.data = IF input = "CHAR" THEN data ELSE NUL]
    /\ UNCHANGED <<scanner, jobs, narrived, own_done, any_done, tmo, semret, nlimit,
                   has_iface, orchVars, threadVars>>

\* the caller hands one input to the component
GuiInput ==
    \E input \in GuiInputs, data \in GuiData :
       /\ input = "DOWN" => gui.selected_network < MaxSelect
       /\ input = "CHAR" => Len(gui.entered_password) < MaxTyped
       /\ GuiHandle(input, data)

GuiStop ==
    /\ pc["main"] = "gui"
    /\ gui' = [wifi_gui_stop(gui) EXCEPT !.input = "none", !.data = NUL]
    /\ UNCHANGED <<scanner, jobs, narrived, own_done, any_done, tmo, semret, nlimit,
                   has_iface, orchVars, threadVars>>

\* wifi_gui_init(gui, scanner, display_ops) on the component in use: memset of the
\* whole struct, state Idle, nothing is drawn
GuiInit ==
    /\ pc["main"] = "gui"
    /\ gui' = [GuiZero EXCEPT !.calls = gui.calls]
    /\ UNCHANGED <<scanner, jobs, narrived, own_done, any_done, tmo, semret, nlimit,
                   has_iface, orchVars, threadVars>>

\* wifi_gui_refresh(gui) called by the application
GuiRefresh ==
    /\ pc["main"] = "gui"
    /\ gui' = [wifi_gui_refresh([gui EXCEPT !.display = <<>>], wifi_scanner_get_results)
                 EXCEPT !.input = "none", !.data = NUL]
    /\ UNCHANGED <<scanner, jobs, narrived, own_done, any_done, tmo, semret, nlimit,
                   has_iface, orchVars, threadVars>>

\* wifi_gui_start has returned 0 on a scanner whose buffer holds n results
InitGui ==
    /\ \E n \in GuiCounts :
          scanner = [ScannerZero
                       EXCEPT !.scan_sem = SemInit(ScannerZero.scan_sem),
                              !.scan_cb = [handler |-> "wifi_scan_done_handler",
                                           mask |-> {"SCAN_RESULT", "SCAN_DONE"}],
                              !.results = [i \in 1 .. n |-> i],
                              !.result_count = n,
                              !.state = "COMPLETE"]
    /\ jobs = [live |-> {}, stale |-> 0]
    /\ narrived = 0
    /\ nlimit = MaxNotif
    /\ has_iface = TRUE
    /\ own_done = [t \in Threads |-> NoDone]
    /\ any_done = [t \in Threads |-> FALSE]
    /\ stack = [t \in Threads |-> <<>>]
    /\ rv = [t \in Threads |-> 0]
    /\ tmo = [t \in Threads |-> NoTimeout]
    /\ semret = [t \in Threads |-> "none"]
    /\ store = [wifi_ssid |-> NoKey, wifi_psk |-> NoKey]
    /\ OrchOn(PlatScannerInit)
    /\ \E cb \in {"none", "creds_cb"} :
          gui = wifi_gui_refresh([GuiZero EXCEPT !.creds_cb = cb,
                                                 !.state = "NETWORK_LIST",
                                                 !.display = <<"clear", "Scanning...",
                                                               "update">>],
                                 wifi_scanner_get_results)
    /\ pc = [t \in Threads |-> IF t = "main" THEN "gui" ELSE "off"]

NextGui == GuiInput \/ GuiStop \/ GuiInit \/ GuiRefresh

SpecGui == InitGui /\ [][NextGui]_vars

\* a session on a list of two networks in which the caller types on: any character
\* for the first MaxTyped and at a full buffer, the same character in between
GuiType ==
    \E input \in GuiInputs, data \in GuiData :
       /\ input = "DOWN" => gui.selected_network < MaxSelect
       /\ (input = "CHAR" /\ Len(gui.entered_password) >= MaxTyped
             /\ Len(gui.entered_password) < WIFI_PSK_MAX) => data \in {"a", NUL}
       /\ GuiHandle(input, data)

InitGuiPw == InitGui /\ scanner.result_count = 2

NextGuiPw == GuiType \/ GuiStop \/ GuiInit \/ GuiRefresh

SpecGuiPw == InitGuiPw /\ [][NextGuiPw]_vars

(***************************************************************************)
(* wifi_gui_start: the scan it runs is the scanner's own wifi_scanner_scan. *)
(***************************************************************************)
GuiCallbacks == {"none", "creds_cb"}

\* wifi_gui_start up to the call of wifi_scanner_scan(gui->scanner, 10000)
GuiStartBegin ==
    /\ pc["main"] = "gui"
    /\ \E cb \in GuiCallbacks :
          gui' = [gui EXCEPT !.creds_cb = cb,
                             !.selected_network = 0,
                             !.password_cursor = 0,
                             !.entered_password = Empty,
                             !.display = <<"clear", "Scanning...", "update">>,
                             !.state = "SCANNING",
                             !.input = "none",
                             !.data = NUL]
    /\ tmo' = [tmo EXCEPT !["main"] = [arg |-> DEFAULT_SCAN_TIMEOUT_MS,
                                       eff |-> DEFAULT_SCAN_TIMEOUT_MS]]
    /\ Call("main", "scan_check", "gui_start_ret")
    /\ UNCHANGED <<scanner, jobs, narrived, own_done, any_done, semret, nlimit,
                   has_iface, orchVars>>

\* faulty variant: a failed scan leaves the state as it is
GuiStartEnd_NoFailed ==
    /\ pc["main"] = "gui_start_ret"
    /\ gui' = IF rv["main"] # 0
              THEN [gui EXCEPT !.display = Append(@, "Scan failed!")]
              ELSE wifi_gui_refresh([gui EXCEPT !.state = "NETWORK_LIST"],
                                    wifi_scanner_get_results)
    /\ Goto("main", "gui")
    /\ UNCHANGED <<scanner, jobs, narrived, own_done, any_done, tmo, semret, nlimit,
                   has_iface, orchVars>>

\* wifi_gui_start after wifi_scanner_scan has returned ret (rv); it returns ret
GuiStartEnd ==
    /\ pc["main"] = "gui_start_ret"
    /\ gui' = IF rv["main"] # 0
              THEN [gui EXCEPT !.state = "FAILED",
                               !.display = Append(@, "Scan failed!")]
              ELSE wifi_gui_refresh([gui EXCEPT !.state = "NETWORK_LIST"],
                                    wifi_scanner_get_results)
    /\ Goto("main", "gui")
    /\ UNCHANGED <<scanner, jobs, narrived, own_done, any_done, tmo, semret, nlimit,
                   has_iface, orchVars>>

\* the caller uses the list it is shown: Down only onto a further entry, one
\* character typed at a time
GuiUse ==
    \E input \in GuiInputs, data \in {"a", NUL} :
       /\ input = "DOWN" => gui.selected_network + 1 < scanner.result_count
       /\ input = "CHAR" => Len(gui.entered_password) < MaxTyped
       /\ GuiHandle(input, data)

\* the component was started on a buffer of two results; it is used and started
\* again
InitGuiStart ==
    /\ scanner = [ScannerZero
                    EXCEPT !.scan_sem = SemInit(ScannerZero.scan_sem),
                           !.scan_cb = [handler |-> "wifi_scan_done_handler",
                                        mask |-> {"SCAN_RESULT", "SCAN_DONE"}],
                           !.results = <<1, 2>>,
                           !.result_count = 2,
                           !.state = "COMPLETE"]
    /\ jobs = [live |-> {}, stale |-> 0]
    /\ narrived = 0
    /\ nlimit = RaceNotif
    /\ has_iface \in BOOLEAN
    /\ own_done = [t \in Threads |-> NoDone]
    /\ any_done = [t \in Threads |-> FALSE]
    /\ stack = [t \in Threads |-> <<>>]
    /\ rv = [t \in Threads |-> 0]
    /\ tmo = [t \in Threads |-> NoTimeout]
    /\ semret = [t \in Threads |-> "none"]
    /\ store = [wifi_ssid |-> NoKey, wifi_psk |-> NoKey]
    /\ OrchOn(PlatScannerInit)
    /\ \E cb \in GuiCallbacks :
          gui = wifi_gui_refresh([GuiZero EXCEPT !.creds_cb = cb,
                                                 !.state = "NETWORK_LIST",
                                                 !.display = <<"clear", "Scanning...",
                                                               "update">>],
                                 wifi_scanner_get_results)
    /\ pc = [t \in Threads |-> IF t = "main" THEN "gui" ELSE "off"]

NextGuiStart ==
    \/ GuiStartBegin
    \/ GuiStartEnd
    \/ GuiUse
    \/ GuiStop
    \/ GuiInit
    \/ GuiRefresh
    \/ ScanCheck("main")
    \/ ScanClear("main")
    \/ ScanRequest("main")
    \/ ScanTake("main")
    \/ ScanTimeout("main")
    \/ ScanWoken("main")
    \/ PlatformScanResult
    \/ PlatformScanDone

SpecGuiStart == InitGuiStart /\ [][NextGuiStart]_vars

(***************************************************************************)
(* Claims about the scanner.                                               *)
(***************************************************************************)
\* a thread is inside scan() past the Busy check
InScan(t) == pc[t] \in {"scan_clear", "scan_request", "scan_take", "scan_pending"}

\* thread t takes the step that returns from the wait of scan()
LeavesWait(t) == pc[t] = "scan_pending" /\ pc'[t] # "scan_pending"

\* C1: in every reachable state result_count <= 32, and the buffer holds exactly
\* result_count entries: what exceeds the capacity is dropped, not kept elsewhere.
C1_ResultCountBounded ==
    /\ scanner.result_count <= WIFI_SCANNER_MAX_RESULTS
    /\ Len(scanner.results) = scanner.result_count

\* more than 32 results were reported to a full buffer
C1_Witness ==
    /\ narrived > WIFI_SCANNER_MAX_RESULTS
    /\ scanner.result_count = WIFI_SCANNER_MAX_RESULTS

\* C2: scan() entered while the state is Scanning returns Busy and changes nothing:
\* buffer, count, state, scan_status and semaphore are as before, no request is issued.
C2_BusyLeavesAll ==
    [][\A t \in Threads :
          (pc[t] = "scan_check" /\ pc'[t] # "scan_check" /\ scanner.state = "SCANNING")
          => /\ rv'[t] = -EBUSY
             /\ pc'[t] = Head(stack[t])
             /\ scanner' = scanner
             /\ jobs' = jobs
             /\ semret' = semret]_vars

\* a caller got Busy while another scan was in progress
C2_Witness ==
    \E t \in Threads :
        /\ pc[t] = "drv_ret"
        /\ rv[t] = -EBUSY
        /\ scanner.state = "SCANNING"
        /\ \E u \in Threads \ {t} : pc[u] = "scan_pending"

\* C3: at most one scan is in progress at any time, also with two calling contexts:
\* no two threads are inside scan() past the Busy check.
C3_OneScanInFlight == Cardinality({t \in Threads : InScan(t)}) <= 1

\* C4: after init(), if k <= 32 result notifications arrive during a scan() whose
\* completion notification carries status 0, the buffer holds those k entries in
\* arrival order when scan() returns.
C4_AllResultsStored ==
    [][\A t \in Threads :
          (/\ LeavesWait(t)
           /\ DoneHandlerListens
           /\ own_done[t].got /\ own_done[t].status = 0
           /\ narrived <= WIFI_SCANNER_MAX_RESULTS)
          => /\ scanner'.result_count = narrived
             /\ scanner'.results = [i \in 1..narrived |-> i]]_vars

\* C5: when the completion notification of a scan arrives before the timeout, scan()
\* returns its status s and the state is Complete if s = 0 and Failed otherwise.
C5_StatusSurfaced ==
    [][\A t \in Threads :
          (LeavesWait(t) /\ own_done[t].got)
          => /\ rv'[t] = own_done[t].status
             /\ scanner'.state = IF own_done[t].status = 0 THEN "COMPLETE" ELSE "FAILED"]_vars

\* the call of k_sem_take in scan() of thread t ends in this step
WaitEnds(t) ==
    pc[t] \in {"scan_take", "scan_pending"} /\ pc'[t] \notin {"scan_take", "scan_pending"}

\* C6: a scan() whose wait ends without any completion notification returns Timeout
\* and leaves the state Failed, not Scanning; a caller passing 0 waits 10 s.
C6_TimeoutFails ==
    [][\A t \in Threads :
          (WaitEnds(t) /\ ~any_done[t])
          => /\ rv'[t] = -ETIMEDOUT
             /\ scanner'.state = "FAILED"
             /\ scanner'.scan_status = -ETIMEDOUT
             /\ (tmo[t].arg = 0 => tmo[t].eff = DEFAULT_SCAN_TIMEOUT_MS)]_vars

(***************************************************************************)
(* Claims about the orchestrator.                                          *)
(***************************************************************************)
Did(e) == \E i \in DOMAIN mlog : mlog[i] = e

\* C7: once main has finished its start-up after an automatic connection that
\* failed, it has entered provisioning: the scanner pass, the initialisation of
\* the configuration server and of the AP controller and the AP start were made.
C7_FallbackToProvisioning ==
    (pc["main"] = "m_loop" /\ Did("autoconnect_failed"))
        => (Did("scan") /\ Did("http_init") /\ Did("ap_init") /\ Did("ap_start"))

\* C8: when the credentials callback returns it has, in this order and once each,
\* persisted the credentials, invoked the server stop, invoked the AP stop, waited
\* the settle delay and issued one connect request for the SSID it was given.
C8_CallbackOrder ==
    \A t \in Threads :
        pc[t] = "pcr_return" =>
            cblog = <<Ev("persist"), Ev("http_stop"), Ev("ap_stop"), Ev("delay"),
                      [ev |-> "connect_request", ssid |-> args[t].ssid]>>

\* the server thread has received ssid=Home&password=mypassword and is about to
\* run the callback, the AP is Active and the server Running
HomeSubmitted ==
    /\ pc["http"] = "pcr_store"
    /\ args["http"] = [ssid |-> Home, password |-> MyPassword]
    /\ ap_prov.state = "ACTIVE"
    /\ http_srv.state = "RUNNING"

\* the success page was sent, the store holds wifi_ssid=Home, the server is
\* Stopped and a connect request for Home was issued
HomeSettled ==
    /\ \E i \in DOMAIN net.sent : net.sent[i] = SuccessPage
    /\ store.wifi_ssid = Key(Home)
    /\ http_srv.state = "STOPPED"
    /\ \E i \in DOMAIN plat.conn_ssids : plat.conn_ssids[i] = Home

\* and the AP is Idle
HomeProvisioned == HomeSettled /\ ap_prov.state = "IDLE"

\* C9: after POST /connect with ssid=Home&password=mypassword was handled while
\* the AP was Active and the server Running, eventually the success page has been
\* sent, the store holds wifi_ssid=Home, the AP is Idle, the server is Stopped and
\* a connect request for Home has been issued.
C9_EndToEnd == HomeSubmitted ~> HomeProvisioned

\* the submitted credentials pass the validation
ValidCreds(a) ==
    Len(a.ssid) > 0 /\ Len(a.ssid) <= WIFI_SSID_MAX /\ Len(a.password) <= WIFI_PSK_MAX

\* C10: the step of the callback that takes over the credentials writes the store
\* and changes wifi_ssid / wifi_psk only if the SSID is non-empty and both lengths
\* are within bounds; an empty SSID leaves the store and the credentials as they were.
C10_StoreOnlyValidated ==
    [][\A t \in Threads :
          (pc[t] = "pcr_store" /\ pc'[t] # "pcr_store" /\ ~ValidCreds(args[t]))
              => (store' = store /\ app'.wifi_ssid = app.wifi_ssid
                                /\ app'.wifi_psk = app.wifi_psk)]_vars

\* C11: after credentials (SSID of 1..32 bytes, password of 0..64 bytes) were
\* persisted over any prior store content, the reload at the next boot (one that
\* gets past the storage checks of main) yields exactly that SSID and exactly
\* that password.
C11_RoundTrip ==
    (Rebooted /\ pc["main"] \notin {"boot", "m_exit"})
        => (app.wifi_ssid = args["http"].ssid /\ app.wifi_psk = args["http"].password)

\* C15: after credentials for any network, an open one included, were received
\* and persisted, the next boot (one that gets past the storage checks of main)
\* takes the automatic-connection branch with that SSID and does not enter
\* provisioning.
C15_ReconnectAfterAcquired ==
    (Rebooted /\ pc["main"] \notin {"boot", "m_exit"})
        => (pc["main"] = "m_auto" /\ app.wifi_ssid = args["http"].ssid)

\* how often the credentials callback has run
Submissions == Cardinality({i \in DOMAIN cblog : cblog[i].ev = "persist"})

\* connect requests issued so far do not exceed one per startup that connects
\* automatically plus one per credential submission, and a failed automatic
\* connection has not led into provisioning, which is entered at most once
NoAutoRetry ==
    /\ Len(plat.conn_ssids) <= (IF Did("autoconnect") THEN 1 ELSE 0) + Submissions
    /\ Did("autoconnect_failed") => ~Did("provisioning")
    /\ Cardinality({i \in DOMAIN mlog : mlog[i] = "provisioning"}) <= 1

\* C12: a connect attempt whose 30 s wait expires without a connect-result
\* notification returns Timeout; without an operator action the orchestrator
\* then issues no further connect request and does not enter provisioning: at
\* most one connect request per startup and per credential submission.
C12_TimeoutNoRetry ==
    [][/\ \A t \in Threads :
             (pc[t] = "wcs_pending" /\ pc'[t] # "wcs_pending" /\ semret[t] = "-EAGAIN")
                 => rv'[t] = -ETIMEDOUT
       /\ NoAutoRetry']_vars

C12_Witness ==
    /\ pc["main"] = "m_loop"
    /\ rv["main"] = -ETIMEDOUT
    /\ Did("autoconnect_failed")
    /\ Len(plat.conn_ssids) = 1
    /\ plat.conn_pending = 1

\* C14: an empty stored SSID counts as absent credentials whatever the "set"
\* flag says: startup with an empty SSID issues no connect request and enters
\* provisioning, and wifi_connect_stored with an empty SSID returns -EINVAL
\* without a connect request and without touching the connect semaphore.
C14_EmptySsidAbsent ==
    [][/\ (pc["main"] = "boot" /\ pc'["main"] # "boot" /\ app'.wifi_ssid = Empty)
           => /\ pc'["main"] = "spm_begin"
              /\ plat'.conn_pending = plat.conn_pending
              /\ plat'.conn_ssids = plat.conn_ssids
       /\ \A t \in Threads :
             (pc[t] = "wcs_request" /\ pc'[t] # "wcs_request" /\ app.wifi_ssid = Empty)
                 => /\ rv'[t] = -EINVAL
                    /\ plat' = plat
                    /\ wifi_connected_sem' = wifi_connected_sem]_vars

\* start_provisioning_mode has returned after wifi_ap_provisioning_start
\* reported an error: the server thread was never created
ApStartFailed == Did("ap_start") /\ pc["main"] = "m_loop" /\ pc["http"] = "off"

\* C13: if AP start returns an error while entering provisioning, entering
\* provisioning returns success, the server is not started (state Stopped, no
\* listening socket), the provisioning flag is false, and a later shell
\* set_ssid / set_password with a valid length succeeds and what it set is
\* what the store gives back.
C13_DegradedShellEntry ==
    [][/\ \A t \in Threads :
             (pc[t] = "spm_servers" /\ pc'[t] # "spm_servers" /\ pc'[t] # "spm_http_start")
                 => rv'[t] = 0
       /\ ApStartFailed' =>
             /\ http_srv'.state = "STOPPED"
             /\ \A fd \in FdTable : ~IsServerSock(net', fd)
             /\ ~app'.provisioning_mode
       /\ (ApStartFailed /\ pc["shell"] = "cmd_wifi_set_ssid" /\ pc'["shell"] = "off"
             /\ Len(args["shell"].ssid) \in 1..WIFI_SSID_MAX)
             => /\ rv'["shell"] = 0
                /\ settings_load(store', AppZero).wifi_ssid = args["shell"].ssid
       /\ (ApStartFailed /\ pc["shell"] = "cmd_wifi_set_password" /\ pc'["shell"] = "off"
             /\ Len(args["shell"].password) <= WIFI_PSK_MAX)
             => /\ rv'["shell"] = 0
                /\ settings_load(store', AppZero).wifi_psk = args["shell"].password]_vars

\* thread t makes the call of wifi_ap_provisioning_start in this step
ApStartStep(t) == pc[t] = "drv" /\ pc'[t] = "drv_ap_start"

\* thread t makes the call of wifi_ap_provisioning_stop in this step
ApStopStep(t) == pc[t] = "drv" /\ pc'[t] = "drv_ap_stop"

\* the platform delivers the result ev of an AP request in this step
ApDelivery(ev) ==
    /\ plat.ap_pending # <<>>
    /\ Head(plat.ap_pending) = ev
    /\ plat'.ap_pending = Tail(plat.ap_pending)
    /\ pc' = pc

\* C16 as stated: wifi_ap_provisioning_start fails with -EALREADY whenever the
\* state is not Idle (Starting, Active and also Failed), with no enable
\* request and no change of the state.
C16_StartOnlyFromIdle ==
    [][\A t \in ApCallers :
          (ApStartStep(t) /\ ap_prov.state # "IDLE")
              => /\ rv'[t] = -EALREADY
                 /\ plat' = plat
                 /\ ap_prov' = ap_prov]_vars

\* C16 amended: wifi_ap_provisioning_start fails with -EALREADY exactly when
\* the state is Starting or Active, with no enable request and no change of
\* the state; from Idle and from Failed the start goes ahead.
C16_StartRejectedWhileUp ==
    [][\A t \in ApCallers :
          ApStartStep(t) =>
              IF ap_prov.state \in {"STARTING", "ACTIVE"}
              THEN /\ rv'[t] = -EALREADY
                   /\ plat' = plat
                   /\ ap_prov' = ap_prov
              ELSE /\ rv'[t] # -EALREADY
                   /\ rv'[t] = 0 => /\ ap_prov'.state = "STARTING"
                                    /\ plat'.ap_pending =
                                          Append(plat.ap_pending, "AP_ENABLE_RESULT")]_vars

\* a start was rejected while the access point was starting
C16_Witness ==
    \E t \in ApCallers :
        /\ pc[t] = "drv_ap_start"
        /\ rv[t] = -EALREADY
        /\ ap_prov.state = "STARTING"
        /\ plat.ap_pending = <<"AP_ENABLE_RESULT">>

\* some caller makes a call of the controller in this step
ApCallerStep == \E t \in ApCallers : pc[t] = "drv" /\ pc'[t] # "drv"

\* C17 as stated: the state becomes Active or Failed only as the effect of an
\* enable-result notification; no call of init, start or stop sets it to
\* Active or to Failed, whatever the platform returns to the enable request.
C17_NotificationSoleAuthority ==
    [][(ap_prov'.state \in {"ACTIVE", "FAILED"} /\ ap_prov'.state # ap_prov.state)
          => (ApDelivery("AP_ENABLE_RESULT") /\ ~ApCallerStep)]_vars

\* C17 amended: the state becomes Active only as the effect of an
\* enable-result notification; it becomes Failed either by such a
\* notification or in wifi_ap_provisioning_start itself, when the platform
\* refuses the enable request, and that call returns the platform's error.
C17_ActiveByNotification ==
    [][/\ (ap_prov'.state = "ACTIVE" /\ ap_prov.state # "ACTIVE")
           => (ApDelivery("AP_ENABLE_RESULT") /\ ~ApCallerStep)
       /\ (ap_prov'.state = "FAILED" /\ ap_prov.state # "FAILED")
           => \/ ApDelivery("AP_ENABLE_RESULT") /\ ~ApCallerStep
              \/ \E t \in ApCallers :
                    /\ ApStartStep(t)
                    /\ rv'[t] \in ApEnableReturns \ {0}
                    /\ plat' = plat]_vars

\* the platform refused the enable request and start left the state Failed
C17_Witness ==
    \E t \in ApCallers :
        /\ pc[t] = "drv_ap_start"
        /\ rv[t] = -EIO
        /\ ap_prov.state = "FAILED"
        /\ plat.ap_pending = <<>>

\* C18: wifi_ap_provisioning_stop fails with -EALREADY unless the state is
\* Active, issuing no disable request and leaving the state unchanged; when
\* the state is Active it issues an AP-disable request (the platform accepts
\* it and its result is awaited, or refuses it and stop returns the error)
\* and leaves the state as it is: outside a new init the state becomes Idle
\* only when the disable-result notification is delivered.
C18_StopOnlyWhenActive ==
    [][/\ \A t \in ApCallers :
             ApStopStep(t) =>
                 /\ ap_prov' = ap_prov
                 /\ IF ap_prov.state # "ACTIVE"
                    THEN rv'[t] = -EALREADY /\ plat' = plat
                    ELSE \/ /\ rv'[t] = 0
                            /\ plat'.ap_pending =
                                  Append(plat.ap_pending, "AP_DISABLE_RESULT")
                         \/ /\ rv'[t] \in ApDisableReturns \ {0}
                            /\ plat' = [plat EXCEPT !.ap_refused = TRUE]
       /\ (ap_prov'.state = "IDLE" /\ ap_prov.state # "IDLE")
             => \/ ApDelivery("AP_DISABLE_RESULT") /\ ~ApCallerStep
                \/ \E t \in ApCallers : pc[t] = "drv" /\ pc'[t] = "drv_ap_init"
       /\ (ApDelivery("AP_DISABLE_RESULT") /\ ~ApCallerStep
              /\ Registered("ap_cb") /\ ap_g.g_ap_instance)
             => ap_prov'.state = "IDLE"]_vars

\* stop was accepted for an active access point: the disable request waits
\* for its answer and the state is still Active
C18_Witness ==
    \E t \in ApCallers :
        /\ pc[t] = "drv_ap_stop"
        /\ rv[t] = 0
        /\ ap_prov.state = "ACTIVE"
        /\ plat.ap_pending = <<"AP_DISABLE_RESULT">>

\* C19: http_server_start fails with -EALREADY unless the state is Stopped
\* (Starting, Running and also Failed), creating no server thread and leaving
\* the callback, the running flag and the state as they were.
C19_StartOnlyWhenStopped ==
    [][(pc["main"] = "drv" /\ pc'["main"] = "drv_http_start" /\ http_srv.state # "STOPPED")
          => /\ rv'["main"] = -EALREADY
             /\ pc'["http"] = pc["http"]
             /\ http_srv' = http_srv]_vars

\* C20: http_server_stop fails with -EALREADY unless the state is Running,
\* leaving the running flag, the listening socket and the state untouched;
\* a stop issued while the state is Starting does not stop the server.
C20_StopOnlyWhenRunning ==
    [][\A t \in Threads :
          (pc[t] = "hs_check" /\ pc'[t] # "hs_check" /\ http_srv.state # "RUNNING")
              => /\ rv'[t] = -EALREADY
                 /\ http_srv' = http_srv
                 /\ net' = net
                 /\ pc'["http"] = pc["http"]]_vars

\* a stop issued while the server was starting has been refused: the state is
\* still Starting, the running flag is set, the socket is open and the server
\* thread is about to listen
C20_Witness ==
    /\ pc["main"] = "drv_http_stop"
    /\ rv["main"] = -EALREADY
    /\ http_srv.state = "STARTING"
    /\ http_srv.running
    /\ IsServerSock(net, http_srv.listen_sock)
    /\ pc["http"] = "ht_listen"

\* http_server_stop has acted on a running server whose thread waits in accept()
StoppedInAccept ==
    /\ pc["main"] = "hs_join"
    /\ pc["http"] = "ht_accept"
    /\ http_srv.state = "RUNNING"

\* the server thread has ended and left the state Stopped
ServerGone == pc["http"] = "exited" /\ http_srv.state = "STOPPED"

\* C21: when http_server_stop acts on a running server whose thread is blocked
\* in accept(), the running flag is cleared and the listening socket closed;
\* once the flag is cleared the thread accepts no further connection, and with
\* accept() failing on the closed socket and a fair scheduler it leaves the loop
\* and sets the state Stopped.
C21_StopUnblocksAccept ==
    /\ [](StoppedInAccept => (/\ ~http_srv.running
                               /\ ~IsOpen(net, http_srv.listen_sock)
                               /\ ~IsOpen(net, net.accept_fd)))
    /\ [][(pc["http"] = "ht_accept" /\ http_srv.state = "RUNNING" /\ ~http_srv.running)
             => pc'["http"] # "hc_handle"]_vars
    /\ (StoppedInAccept ~> ServerGone)

\* the server thread is in its start-up: socket(), bind(), listen()
InStartup == pc["http"] \in {"ht_socket", "ht_bind", "ht_listen"}

\* C22: after a successful http_server_start the state becomes Running only
\* in the step in which listen() succeeds, after socket() and bind()
\* succeeded; if one of the three fails the state becomes Failed and the
\* thread ends: it accepts no connection and the state does not become
\* Running for that start.
C22_RunningAfterListen ==
    /\ [][/\ (http_srv'.state = "RUNNING" /\ http_srv.state # "RUNNING")
              => /\ pc["http"] = "ht_listen" /\ pc'["http"] = "ht_loop"
                 /\ IsServerSock(net, http_srv.listen_sock)
                 /\ IsListening(net', http_srv.listen_sock)
          /\ (InStartup /\ pc'["http"] = "exited")
              => /\ http_srv'.state = "FAILED"
                 /\ net'.client = net.client
          /\ (pc'["http"] = "hc_handle" /\ pc["http"] # "hc_handle")
              => pc["http"] = "ht_accept"
          /\ pc["http"] = "exited" => pc'["http"] \in {"exited", "ht_socket"}]_vars
    /\ [](pc["http"] = "exited" => http_srv.state # "RUNNING")

\* bind() or listen() failed after socket() succeeded: the socket is closed,
\* the state is Failed, the thread has ended and no client was served
C22_Witness ==
    /\ pc["http"] = "exited"
    /\ http_srv.state = "FAILED"
    /\ http_srv.listen_sock = 3
    /\ ~IsOpen(net, 3)
    /\ net.client = "none"

\* the first max bytes of a field value with every + replaced by a space
Decoded(v, max) ==
    [i \in 1..Min(Len(v), max) |-> IF v[i] = "+" THEN " " ELSE v[i]]

\* C23: for every POST /connect body ssid=<s>&password=<p> in which s and p
\* contain no &, the callback receives s cut to its first 32 bytes and p cut
\* to its first 64 bytes, each with every + replaced by a space and no other
\* change.
C23_DecodesFields ==
    \A s \in ParseSsids, p \in ParsePasswords :
        (pc["http"] \notin {"hc_handle", "hc_callback"} /\ net.request = PostRequest(s, p))
            => /\ pc["http"] = "pcr_store"
               /\ args["http"].ssid = Decoded(s, WIFI_SSID_MAX)
               /\ args["http"].password = Decoded(p, WIFI_PSK_MAX)

\* the request starts with POST /connect and its body, after the blank line,
\* holds the key ssid=
IsSubmission(buffer) ==
    /\ MatchAt(buffer, PostConnect, 1)
    /\ StrStr(buffer, CRLFCRLF) # 0
    /\ StrStr(SubSeq(buffer, StrStr(buffer, CRLFCRLF) + 4, Len(buffer)), SsidKey) # 0

\* C24: the credentials callback is called only for a request that starts
\* with POST /connect and whose body holds ssid=; for any other request the
\* server thread handles and closes the connection without calling it and
\* leaves the stored credentials, the server state and the AP state as they
\* were; the callback is entered only from handle_client and returns to the
\* closing of the connection, so it runs at most once per connection.
C24_CallbackOnlyForSubmission ==
    [][/\ (pc'["http"] = "pcr_store" /\ pc["http"] # "pcr_store")
           => (pc["http"] = "hc_callback" /\ IsSubmission(net.request))
       /\ (pc["http"] = "hc_handle" /\ pc'["http"] # "hc_handle"
              /\ ~IsSubmission(net.request))
           => /\ pc'["http"] \in {"hc_close", "hc_results"}
              /\ app' = app /\ store' = store /\ cblog' = cblog
              /\ http_srv' = http_srv /\ ap_prov' = ap_prov /\ plat' = plat
       /\ (pc["http"] = "hc_results" /\ pc'["http"] # "hc_results")
           => /\ pc'["http"] = "hc_page"
              /\ app' = app /\ store' = store /\ cblog' = cblog
              /\ http_srv' = http_srv /\ ap_prov' = ap_prov /\ plat' = plat
       /\ (pc["http"] = "hc_page" /\ pc'["http"] # "hc_page")
           => /\ pc'["http"] = "hc_close"
              /\ app' = app /\ store' = store /\ cblog' = cblog
              /\ http_srv' = http_srv /\ ap_prov' = ap_prov /\ plat' = plat
       /\ (pc["http"] = "hc_close" /\ pc'["http"] # "hc_close")
           => /\ pc'["http"] = "ht_loop"
              /\ app' = app /\ store' = store /\ cblog' = cblog
              /\ http_srv' = http_srv /\ ap_prov' = ap_prov /\ plat' = plat
       /\ (pc["http"] = "pcr_return" /\ pc'["http"] # "pcr_return")
           => pc'["http"] = "hc_close"]_vars

\* a POST /connect without a blank line, and one without ssid=, were closed
\* with no callback
C24_Witness ==
    /\ pc["http"] = "hc_close"
    /\ net.request \in {ReqNoBlank, ReqNoSsid}
    /\ cblog = <<>>
    /\ store.wifi_ssid = NoKey
    /\ http_srv.state = "RUNNING"

\* C25: on every accepted connection on which a request was read, the server
\* has sent a response (the success page or the configuration page) when it
\* closes the connection, also when the request is a POST /connect whose body
\* cannot be parsed.
C25_AlwaysAnswered ==
    (pc["http"] = "hc_close" /\ net.request # Empty) => net.sent # <<>>

\* accept() returns a connection and handle_client reads its request
AcceptStep == pc["http"] = "ht_accept" /\ pc'["http"] = "hc_handle"

\* handle_client looks at the request and answers it
HandleStep == pc["http"] = "hc_handle" /\ pc'["http"] # "hc_handle"

\* handle_client sends one more part of the configuration page
PageStep == pc["http"] = "hc_page" /\ pc'["http"] \in {"hc_page", "hc_close"}

\* C26: each accepted connection is read once, answered at most once and
\* closed exactly once by the server thread, on every path (empty read,
\* credential submission, page request), before the thread accepts the next
\* connection.
C26_OneRequestPerConnection ==
    /\ [][/\ AcceptStep => (net.client # "open" /\ net'.client = "open" /\ net'.sent = <<>>)
          /\ net'.request # net.request => AcceptStep
          /\ net'.sent # net.sent => (AcceptStep \/ HandleStep \/ PageStep)
          /\ HandleStep => /\ pc'["http"] \in {"hc_close", "hc_callback", "hc_results"}
                           /\ Len(net'.sent) <= 1
                           /\ net'.client = "open"
          /\ PageStep => /\ Len(net'.sent) = 1 /\ Len(net.sent) = 1
                         /\ net'.sent[1].kind = "page"
                         /\ net'.client = "open"
          /\ net'.client # net.client
               => \/ AcceptStep
                  \/ /\ pc["http"] = "hc_close" /\ pc'["http"] = "ht_loop"
                     /\ net.client = "open" /\ net'.client = "closed"]_vars
    /\ [](pc["http"] \in {"ht_loop", "ht_accept", "ht_exit", "exited"} => net.client # "open")

\* the connection of a credential submission was answered once and closed
C26_Witness ==
    /\ pc["http"] = "ht_loop"
    /\ net.client = "closed"
    /\ net.request = ReqHome
    /\ net.sent = <<SuccessPage>>
    /\ Submissions = 1

\* handle_client takes the number of results from the scanner
PageCountStep == pc["http"] = "hc_results" /\ pc'["http"] = "hc_page"

\* handle_client sends one more network entry of the page
PageEntryStep == pc["http"] = "hc_page" /\ hc'.i = hc.i + 1

\* handle_client has sent the last entry and sends the rest of the page
PageEndStep == pc["http"] = "hc_page" /\ pc'["http"] = "hc_close"

\* C27: the page served for a request other than POST /connect holds one
\* network entry per result held in the scanner's buffer, in buffer order:
\* the number of entries is the number of results held when the rendering
\* begins, and the entry sent at each position is the result the buffer holds
\* at that position, also when a scan started from the shell or from main
\* clears and refills the buffer while the server thread renders.
C27_PageListsResults ==
    [][/\ PageCountStep => hc'.count = scanner.result_count
       /\ PageEntryStep
            => /\ hc.i < scanner.result_count
               /\ net'.sent[Len(net'.sent)].networks[hc.i + 1] = scanner.results[hc.i + 1]
       /\ PageEndStep => Len(net'.sent[Len(net'.sent)].networks) = hc.count]_vars

(***************************************************************************)
(* Claims about the alternate-input state machine.                         *)
(***************************************************************************)
\* the buffer entry under the selection index
SelectedEntry == scanner.results[gui.selected_network + 1]

\* the step hands the input to wifi_gui_handle_input
InputStep(input) == gui' # gui /\ gui'.input = input

\* the selection is on an open network of the list and a callback is registered
OpenSelected ==
    /\ gui.state = "NETWORK_LIST"
    /\ gui.selected_network < scanner.result_count
    /\ NetSecurity(SelectedEntry) = "NONE"
    /\ gui.creds_cb # "none"

\* C28: in NetworkList with an open network selected, Select calls the credential
\* callback exactly once, with that entry's SSID and an empty password, and the
\* state after the input is Connecting, never EnterPassword.
C28_OpenSelectConnects ==
    [][(OpenSelected /\ InputStep("SELECT")) =>
          /\ gui'.state = "CONNECTING"
          /\ gui'.calls = Append(gui.calls, [ssid |-> NetSsid(SelectedEntry),
                                             password |-> Empty])
          /\ gui'.selected_ssid = NetSsid(SelectedEntry)
          /\ gui'.entered_password = Empty]_vars

C28_Witness ==
    /\ gui.state = "CONNECTING"
    /\ gui.input = "SELECT"
    /\ gui.selected_network = 2
    /\ gui.calls = <<[ssid |-> NetSsid(3), password |-> Empty]>>

\* C29: in EnterPassword with an empty password buffer, Back moves the state to
\* NetworkList; the selected SSID, the selection index and the registered callback
\* stay as they were and the callback is not called.
C29_BackKeepsSelection ==
    [][(gui.state = "ENTER_PASSWORD" /\ gui.entered_password = Empty
          /\ InputStep("BACK")) =>
          /\ gui'.state = "NETWORK_LIST"
          /\ gui'.selected_ssid = gui.selected_ssid
          /\ gui'.selected_network = gui.selected_network
          /\ gui'.creds_cb = gui.creds_cb
          /\ gui'.calls = gui.calls
          /\ gui'.entered_password = Empty]_vars

C29_Witness ==
    /\ gui.state = "NETWORK_LIST"
    /\ gui.input = "BACK"
    /\ gui.selected_network = 1
    /\ gui.selected_ssid = NetSsid(2)
    /\ gui.calls = <<>>

\* C30: whatever Up and Down inputs arrive in NetworkList, the selection index is a
\* valid index of the result list: below count when count > 0, and 0 when the scan
\* returned no networks.
C30_SelectionInRange ==
    gui.state = "NETWORK_LIST" =>
       IF scanner.result_count > 0
       THEN gui.selected_network >= 0 /\ gui.selected_network < scanner.result_count
       ELSE gui.selected_network = 0

\* C31: in EnterPassword the password buffer is a stack of capacity 64.  Char(c)
\* with c # 0 appends c while the length is below 64 and changes nothing otherwise,
\* Back on a non-empty buffer removes the last character, both leave the state, the
\* selected SSID and the callback record alone, and the length never exceeds 64.
C31_PasswordBoundedStack ==
    /\ [](Len(gui.entered_password) <= WIFI_PSK_MAX)
    /\ [][(gui.state = "ENTER_PASSWORD" /\ InputStep("CHAR")) =>
             /\ gui'.entered_password =
                  IF gui'.data # NUL /\ Len(gui.entered_password) < WIFI_PSK_MAX
                  THEN Append(gui.entered_password, gui'.data)
                  ELSE gui.entered_password
             /\ gui'.state = "ENTER_PASSWORD"
             /\ gui'.selected_ssid = gui.selected_ssid
             /\ gui'.calls = gui.calls]_vars
    /\ [][(gui.state = "ENTER_PASSWORD" /\ gui.entered_password # Empty
             /\ InputStep("BACK")) =>
             /\ gui'.entered_password =
                  SubSeq(gui.entered_password, 1, Len(gui.entered_password) - 1)
             /\ gui'.state = "ENTER_PASSWORD"
             /\ gui'.selected_ssid = gui.selected_ssid
             /\ gui'.calls = gui.calls]_vars

\* a character other than the last one of the full buffer was given and ignored
C31_Witness ==
    /\ gui.state = "ENTER_PASSWORD"
    /\ Len(gui.entered_password) = WIFI_PSK_MAX
    /\ gui.input = "CHAR"
    /\ gui.data = "b"
    /\ gui.entered_password[WIFI_PSK_MAX] = "a"
    /\ gui.entered_password[1] = "b"

\* the selection is on a secured network of the list
SecuredSelected ==
    /\ gui.state = "NETWORK_LIST"
    /\ gui.selected_network < scanner.result_count
    /\ NetSecurity(SelectedEntry) # "NONE"

\* C32: Select on a secured network records its SSID, empties the password buffer
\* and moves to EnterPassword without calling the credential callback; Select in
\* EnterPassword calls the callback exactly once, with the recorded SSID and the
\* password typed so far, and moves to Connecting; in Connecting no input changes
\* the state or calls the callback.
C32_SecuredSelectThenSubmit ==
    /\ [][(SecuredSelected /\ InputStep("SELECT")) =>
             /\ gui'.state = "ENTER_PASSWORD"
             /\ gui'.selected_ssid = NetSsid(SelectedEntry)
             /\ gui'.entered_password = Empty
             /\ gui'.calls = gui.calls]_vars
    /\ [][(gui.state = "ENTER_PASSWORD" /\ gui.creds_cb # "none"
             /\ InputStep("SELECT")) =>
             /\ gui'.state = "CONNECTING"
             /\ gui'.calls = Append(gui.calls, [ssid |-> gui.selected_ssid,
                                                password |-> gui.entered_password])
             /\ gui'.selected_ssid = gui.selected_ssid
             /\ gui'.entered_password = gui.entered_password]_vars
    /\ [][(gui.state = "CONNECTING" /\ gui'.input \in GuiInputs) =>
             /\ gui'.state = "CONNECTING"
             /\ gui'.calls = gui.calls]_vars

\* a typed password was submitted for a secured network and a later input ignored
C32_Witness ==
    /\ gui.state = "CONNECTING"
    /\ gui.input = "BACK"
    /\ gui.calls = <<[ssid |-> NetSsid(2), password |-> <<"a", "b">>]>>

\* main is inside wifi_gui_start: in wifi_scanner_scan or just back from it
InGuiStart ==
    pc["main"] \in {"scan_check", "scan_clear", "scan_request", "scan_take",
                    "scan_pending", "gui_start_ret"}

\* C33: wifi_gui_start resets the selection index to 0 and empties the password
\* buffer, the state is Scanning from before the scanner is called until the scan
\* has returned, and start returns the scan's result with the state NetworkList if
\* that is 0 and Failed if not; the state is never Scanning once start has returned.
C33_StartScansThenLists ==
    /\ [](InGuiStart => (/\ gui.state = "SCANNING"
                         /\ gui.selected_network = 0
                         /\ gui.entered_password = Empty))
    /\ [](pc["main"] = "gui" => gui.state # "SCANNING")
    /\ [][(pc["main"] = "gui_start_ret" /\ pc'["main"] = "gui") =>
             /\ gui'.state = IF rv["main"] = 0 THEN "NETWORK_LIST" ELSE "FAILED"
             /\ rv'["main"] = rv["main"]
             /\ gui'.selected_network = 0
             /\ gui'.entered_password = Empty]_vars

\* a second start after a password was typed for the second network and submitted
C33_Witness ==
    /\ pc["main"] = "gui"
    /\ gui.state = "NETWORK_LIST"
    /\ rv["main"] = 0
    /\ gui.selected_network = 0
    /\ gui.entered_password = Empty
    /\ gui.calls = <<[ssid |-> NetSsid(2), password |-> <<"a">>]>>
    /\ scanner.result_count = 0

\* the display calls of a full refresh for the present state
FullRefresh == <<"clear">> \o GuiContent(gui, wifi_scanner_get_results) \o <<"update">>

\* the last display calls of the operation are a full refresh for the present state
Refreshed ==
    /\ Len(gui.display) >= Len(FullRefresh)
    /\ SubSeq(gui.display, Len(gui.display) - Len(FullRefresh) + 1, Len(gui.display))
         = FullRefresh

\* the step is a call of wifi_gui_init
GuiInitStep == gui' = [GuiZero EXCEPT !.calls = gui.calls]

\* C34: every change of the GUI state by start, stop or handle_input is followed,
\* within the same operation, by a full refresh for the new state: the display is
\* cleared, the content of the new state is shown and update is called.
C34_RefreshAfterChange ==
    [][(gui'.state # gui.state /\ ~GuiInitStep) => Refreshed']_vars

(***************************************************************************)
(* Claims about the reset commands.                                        *)
(***************************************************************************)
\* neither RAM nor the store holds WiFi credentials
CredentialsCleared ==
    /\ app.wifi_ssid = Empty
    /\ app.wifi_psk = Empty
    /\ store.wifi_ssid = NoKey
    /\ store.wifi_psk = NoKey

\* C35: when "wifi_ext reset" returns, the SSID and the password in memory are empty
\* and the store holds neither wifi_ssid nor wifi_psk.
C35_ExtResetClears ==
    [][(pc["shell"] = "cmd_wifi_ext_reset" /\ pc'["shell"] = "off")
          => CredentialsCleared']_vars

(***************************************************************************)
(* Claims about the station connection.                                    *)
(***************************************************************************)
\* wifi_connect_stored returns to thread t after its wait
ConnectReturns(t) == pc[t] = "wcs_pending" /\ pc'[t] # "wcs_pending"

\* C36: wifi_connect_stored returns 0 only if a connect result of status 0 was
\* delivered after this attempt issued its request: the result that ended the wait
\* of the attempt is one of the results delivered since then.
C36_SuccessOnlyOnOwnResult ==
    [][\A t \in {"main", "shell"} :
          (ConnectReturns(t) /\ rv'[t] = 0) => t \in plat.conn_ok]_vars

(***************************************************************************)
(* Claims about late notifications and about the contexts of the server.   *)
(***************************************************************************)
\* the caller is between two calls of the scanner
BetweenCalls == pc["main"] \in {"drv", "drv_ret"}

\* C37: between the return of scan() and the next scan(), clear() or init() the
\* state and scan_status of the scanner do not change, and the wait of a scan() is
\* satisfied only by the completion of the request this scan() issued.
C37_LateCompletionHarmless ==
    /\ [][(BetweenCalls /\ BetweenCalls') =>
             /\ scanner'.state = scanner.state
             /\ scanner'.scan_status = scanner.scan_status]_vars
    /\ [][(pc["main"] = "scan_pending" /\ semret["main"] = "0"
             /\ pc'["main"] # "scan_pending") => own_done["main"].got]_vars

\* the server thread does not exist or has ended
ServerContextExited == pc["http"] \in {"off", "exited"}

\* C38: when the station-connect request that follows a credential submission is
\* issued, the server thread has ended and the server state is Stopped; and when
\* http_server_stop returns 0 the server thread has ended.
C38_ServerGoneBeforeConnect ==
    /\ [][(pc["http"] = "wcs_request" /\ pc'["http"] = "wcs_take") =>
             ServerContextExited /\ http_srv.state = "STOPPED"]_vars
    /\ [][\A t \in Threads : (pc[t] = "hs_join" /\ pc'[t] # "hs_join" /\ rv'[t] = 0) =>
             ServerContextExited']_vars

\* k_thread_create: a server thread starts at the top of http_server_thread
ServerCreated ==
    \E t \in Threads : /\ pc[t] \in {"spm_http_start", "shs_server"}
                       /\ pc'[t] # pc[t]
                       /\ rv'[t] = 0

\* the server thread leaves socket() with a new listening socket
SocketOpened == pc["http"] = "ht_socket" /\ pc'["http"] = "ht_bind"

\* close(server->listen_sock) in the server thread or in http_server_stop
ListenSockClosed ==
    \/ pc["http"] \in {"ht_bind", "ht_listen", "ht_exit"} /\ pc'["http"] = "exited"
    \/ \E t \in Threads : pc[t] = "hs_close" /\ pc'[t] = "hs_join" /\ http_srv.listen_sock >= 0

\* C39: a server thread is created only when no server thread is alive, a listening
\* socket is opened only when none is open, and every close of the listening socket
\* acts on a socket that is still open.
C39_OneServerContext ==
    /\ [][ServerCreated => ServerContextExited]_vars
    /\ [][SocketOpened => \A fd \in FdTable : ~IsServerSock(net, fd)]_vars
    /\ [][ListenSockClosed => IsServerSock(net, http_srv.listen_sock)]_vars

\* the server thread has not yet passed socket(), bind() and listen()
ServerStartupPending == pc["http"] \in {"ht_socket", "ht_bind", "ht_listen"}

\* C40: whenever provisioning_mode is set, no AP result is outstanding and the server
\* thread has passed its start-up steps, the AP state is Active and the server state
\* is Running.
C40_FlagMeansServing ==
    (app.provisioning_mode /\ plat.ap_pending = <<>> /\ ~ServerStartupPending) =>
        (ap_prov.state = "ACTIVE" /\ http_srv.state = "RUNNING")

====
